---- MODULE Spec2Model ----
(***************************************************************************)
(* A model of the porus ORM (src/porus): column expressions, the statement *)
(* builders Query / Update / Delete, and the Engine over a sqlite3         *)
(* connection.                                                             *)
(*                                                                         *)
(* SQL text is modelled as the sequence of its blank-separated tokens, so  *)
(* "LIMIT ?" is <<"LIMIT", "?">> and string concatenation is \o.           *)
(* A Python value is a record [ty, i]: its runtime type and a number (for  *)
(* a str, the index of the text in a fixed table of texts).                *)
(***************************************************************************)
EXTENDS Integers, Sequences, FiniteSets, TLC

VARIABLES
    db,       \* the sqlite database behind Engine.conn
    objs,     \* the Table instances the caller holds, by identity (index)
    wclause,  \* the WhereStatement the caller built last, or NoClause
    stmt,     \* the statement object under construction, or NoStmt
    pushed,   \* the schemas push has been called for (history)
    last      \* what the last call did: its inputs, error, SQL, result

vars == <<db, objs, wclause, stmt, pushed, last>>

\* The most clause-adding calls chained on one statement.
MaxClauses == 3

(***************************************************************************)
(* Python values                                                           *)
(***************************************************************************)
IntV(n) == [ty |-> "int", i |-> n]
StrV(k) == [ty |-> "str", i |-> k]
BoolV(b) == [ty |-> "bool", i |-> b]
FloatV(n) == [ty |-> "float", i |-> n]
NoneV == [ty |-> "none", i |-> 0]

\* a bytes value, and a value of a type sqlite3 does not bind (a date)
BytesV(k) == [ty |-> "bytes", i |-> k]
DateV(k) == [ty |-> "date", i |-> k]

\* isinstance(value, annotation): bool is a subclass of int.
IsInstance(v, ann) == v.ty = ann \/ (ann = "int" /\ v.ty = "bool")

\* bool(value)
Truthy(v) == IF v.ty = "none" THEN FALSE
             ELSE IF v.ty = "str" THEN v.i # 0   \* text 0 is the empty text
             ELSE v.i # 0

\* value == value in Python: numbers compare by value across int/bool/float.
IsNum(v) == v.ty \in {"int", "bool", "float"}
PyEq(v, w) == IF IsNum(v) /\ IsNum(w) THEN v.i = w.i ELSE v = w

(***************************************************************************)
(* Schemas: the Table subclasses of src/porus/main.py                      *)
(***************************************************************************)
\* A field: its name, its annotation, and json_schema_extra.get("primary_key")
\* (extra is whether json_schema_extra is set at all).
FieldDef(n, a, e, p) == [name |-> n, ann |-> a, extra |-> e, pk |-> p]

UserFields == <<FieldDef("id", "int", TRUE, TRUE),
                FieldDef("name", "str", FALSE, FALSE)>>

CommentFields == <<FieldDef("id", "int", TRUE, TRUE),
                   FieldDef("comment", "str", FALSE, FALSE),
                   FieldDef("user_id", "int", TRUE, FALSE)>>

\* ColumnField(foreign_key=User.c.id) on Comment.user_id: the field of a table
\* declared to reference a column of another
ForeignKeys ==
    {[table |-> "comment", field |-> "user_id", ref_table |-> "user", ref_field |-> "id"]}

TableNames == {"user", "comment"}

model_fields(t) == IF t = "user" THEN UserFields ELSE CommentFields

FieldNames(t) == {model_fields(t)[k].name : k \in 1..Len(model_fields(t))}

FieldOf(t, n) ==
    LET fs == model_fields(t)
    IN fs[CHOOSE k \in 1..Len(fs) : fs[k].name = n]

(***************************************************************************)
(* Column expressions and where-clauses (src/porus/column.py)              *)
(***************************************************************************)
WhereStatement(statement, values) == [statement |-> statement, values |-> values]

NoClause == [statement |-> <<>>, values |-> <<>>]

\* Mutation of __and__: the values of other come first.
WhereStatement_and_prepends(self, other) ==
    WhereStatement(<<"(">> \o self.statement \o <<"AND">> \o other.statement \o <<")">>,
                   other.values \o self.values)

\* WhereStatement.__and__ / __or__: self as the call leaves it (self is also
\* what the call returns)
WhereStatement_and(self, other) ==
    WhereStatement(<<"(">> \o self.statement \o <<"AND">> \o other.statement \o <<")">>,
                   self.values \o other.values)

WhereStatement_or(self, other) ==
    WhereStatement(<<"(">> \o self.statement \o <<"OR">> \o other.statement \o <<")">>,
                   self.values \o other.values)

Column(field, column_name, table_name) ==
    [ann |-> field.ann, column_name |-> column_name, table_name |-> table_name,
     function_applied |-> "None"]

\* GenericColumn.__getattr__: Table.c.<name>
GenericColumn_getattr(t, n) == Column(FieldOf(t, n), n, t)

\* The outcome of building a clause: an error, or the clause.
Raise(e) == [err |-> e, clause |-> NoClause]
Return(c) == [err |-> "none", clause |-> c]

Column_eq(self, other) ==
    IF ~IsInstance(other, self.ann) THEN Raise("TypeMismatch")
    ELSE Return(WhereStatement(<<self.column_name, "=", "?">>, <<other>>))

Column_ne(self, other) ==
    IF ~IsInstance(other, self.ann) THEN Raise("TypeMismatch")
    ELSE Return(WhereStatement(<<self.column_name, "!=", "?">>, <<other>>))

Column_lt(self, other) ==
    IF ~IsInstance(other, self.ann) THEN Raise("TypeMismatch")
    ELSE Return(WhereStatement(<<self.column_name, "<", "?">>, <<other>>))

\* Mutation of __le__: the symbol of __lt__.
Column_le_strict(self, other) == Column_lt(self, other)

Column_le(self, other) ==
    IF ~IsInstance(other, self.ann) THEN Raise("TypeMismatch")
    ELSE Return(WhereStatement(<<self.column_name, "<=", "?">>, <<other>>))

Column_gt(self, other) ==
    IF ~IsInstance(other, self.ann) THEN Raise("TypeMismatch")
    ELSE Return(WhereStatement(<<self.column_name, ">", "?">>, <<other>>))

Column_ge(self, other) ==
    IF ~IsInstance(other, self.ann) THEN Raise("TypeMismatch")
    ELSE Return(WhereStatement(<<self.column_name, ">=", "?">>, <<other>>))

\* The operand of column[...]: a list or a tuple of values, or one value that
\* is neither (coll = "scalar", items = <<value>>).
ListOf(items) == [coll |-> "list", items |-> items]
TupleOf(items) == [coll |-> "tuple", items |-> items]
ScalarOf(v) == [coll |-> "scalar", items |-> <<v>>]

\* ', '.join(['?' for _ in range(n)])
QuestionMarks(n) == [k \in 1..(IF n = 0 THEN 0 ELSE 2 * n - 1) |-> IF k % 2 = 1 THEN "?" ELSE ","]

\* Mutation of __getitem__: the elements are not tested.
Column_getitem_untyped(self, other) ==
    IF other.coll \notin {"list", "tuple"} THEN Raise("TypeMismatch")
    ELSE IF Len(other.items) = 0 THEN Raise("EmptyOperand")
    ELSE Return(WhereStatement(<<self.column_name, "IN", "(">>
                                  \o QuestionMarks(Len(other.items)) \o <<")">>,
                               other.items))

\* Column.__getitem__: the IN operator
Column_getitem(self, other) ==
    IF other.coll \notin {"list", "tuple"} THEN Raise("TypeMismatch")
    ELSE IF Len(other.items) = 0 THEN Raise("EmptyOperand")
    ELSE IF \E k \in 1..Len(other.items) : ~IsInstance(other.items[k], self.ann)
         THEN Raise("TypeMismatch")
         ELSE Return(WhereStatement(<<self.column_name, "IN", "(">>
                                       \o QuestionMarks(Len(other.items)) \o <<")">>,
                                    other.items))

CompareOps == {"eq", "ne", "lt", "le", "gt", "ge"}

\* Python's dispatch of  column <op> other  to the operator method.
Compare(self, op, other) ==
    CASE op = "eq" -> Column_eq(self, other)
      [] op = "ne" -> Column_ne(self, other)
      [] op = "lt" -> Column_lt(self, other)
      [] op = "le" -> Column_le(self, other)
      [] op = "gt" -> Column_gt(self, other)
      [] op = "ge" -> Column_ge(self, other)

\* The arithmetic operators build the SET assignment of an update.
SetStatement(statement, column, values) ==
    [statement |-> statement, column |-> column, values |-> values]

NoSet == SetStatement(<<>>, Column(UserFields[1], "", ""), <<>>)

RaiseSet(e) == [err |-> e, set |-> NoSet]
ReturnSet(s) == [err |-> "none", set |-> s]

Column_add(self, other) ==
    IF ~IsInstance(other, self.ann) THEN RaiseSet("TypeMismatch")
    ELSE ReturnSet(SetStatement(
            <<self.column_name, "=", self.column_name, "+", "?">>, self, <<other>>))

Column_sub(self, other) ==
    IF ~IsInstance(other, self.ann) THEN RaiseSet("TypeMismatch")
    ELSE ReturnSet(SetStatement(
            <<self.column_name, "=", self.column_name, "-", "?">>, self, <<other>>))

Column_mul(self, other) ==
    IF ~IsInstance(other, self.ann) THEN RaiseSet("TypeMismatch")
    ELSE ReturnSet(SetStatement(
            <<self.column_name, "=", self.column_name, "*", "?">>, self, <<other>>))

Column_truediv(self, other) ==
    IF ~IsInstance(other, self.ann) THEN RaiseSet("TypeMismatch")
    ELSE ReturnSet(SetStatement(
            <<self.column_name, "=", self.column_name, "/", "?">>, self, <<other>>))

\* Column.get_query
get_query(self) ==
    IF self.function_applied # "None"
    THEN <<self.function_applied, "(", self.column_name, ")">>
    ELSE <<self.column_name>>

\* Column.max / min / sum / count / avg: the column itself, with the function set
Column_max(self) == [self EXCEPT !.function_applied = "MAX"]
Column_min(self) == [self EXCEPT !.function_applied = "MIN"]
Column_sum(self) == [self EXCEPT !.function_applied = "SUM"]
Column_count(self) == [self EXCEPT !.function_applied = "COUNT"]
Column_avg(self) == [self EXCEPT !.function_applied = "AVG"]

(***************************************************************************)
(* Sequences of tokens                                                     *)
(***************************************************************************)
RECURSIVE Join(_, _)
\* sep.join(parts), each part a token sequence
Join(parts, sep) ==
    IF parts = <<>> THEN <<>>
    ELSE IF Len(parts) = 1 THEN parts[1]
    ELSE parts[1] \o <<sep>> \o Join(Tail(parts), sep)

Range(s) == {s[k] : k \in 1..Len(s)}

(***************************************************************************)
(* Clause kinds (src/porus/statement/clause_enums.py). A member of one     *)
(* Enum class never equals a member of another class, whatever its value.  *)
(***************************************************************************)
Member(c, n, v) == [cls |-> c, name |-> n, value |-> v]

DeleteClause(n) ==
    Member("DeleteClause", n,
           CASE n = "DELETE" -> 0 [] n = "WHERE" -> 1 [] n = "RETURNING" -> 2)

UpdateClause(n) ==
    Member("UpdateClause", n,
           CASE n = "UPDATE" -> 0 [] n = "SET" -> 1 [] n = "FROM" -> 2
             [] n = "WHERE" -> 3 [] n = "RETURNING" -> 4 [] n = "ORDER_BY" -> 5
             [] n = "LIMIT" -> 6 [] n = "OFFSET" -> 7)

QueryClause(n) ==
    Member("QueryClause", n,
           CASE n = "SELECT" -> 0 [] n = "FROM" -> 1 [] n = "WHERE" -> 2
             [] n = "GROUP_BY" -> 3 [] n = "ORDER_BY" -> 4 [] n = "LIMIT" -> 5
             [] n = "OFFSET" -> 6)

(***************************************************************************)
(* Statements (src/porus/statement)                                        *)
(***************************************************************************)
\* One element of self.statements: (clause, clause_type, value); value is a
\* list or None. The tuple holds the list object it was given: shared says
\* that it is the values list of the WhereStatement the caller holds.
Slot(clause, ctype, value) ==
    [clause |-> clause, ctype |-> ctype, value |-> value, none |-> FALSE, shared |-> FALSE]
SlotNone(clause, ctype) ==
    [clause |-> clause, ctype |-> ctype, value |-> <<>>, none |-> TRUE, shared |-> FALSE]

\* The statement after the list of the held WhereStatement was extended in
\* place to values: every slot holding that list shows the longer list.
Aliased(self, values) ==
    [self EXCEPT !.statements =
        [k \in 1..Len(@) |-> IF @[k].shared THEN [@[k] EXCEPT !.value = values] ELSE @[k]]]

\* table_or_subquery: a Table class or a list of columns
OfTable(t) == [is_table |-> TRUE, table |-> t, columns |-> <<>>]
OfColumns(cs) == [is_table |-> FALSE, table |-> "", columns |-> cs]

NoStmt ==
    [kind |-> "None", statements |-> <<>>, select |-> OfColumns(<<>>),
     can_return_table |-> FALSE, table_name |-> ""]

\* BaseStatement.__init__
BaseStatement(kind, table_or_subquery) ==
    [kind |-> kind, statements |-> <<>>, select |-> table_or_subquery,
     can_return_table |-> table_or_subquery.is_table,
     table_name |-> ""]

Append1(self, slot) == [self EXCEPT !.statements = Append(@, slot)]

\* What a builder call gives: an error or the statement it returns.
RaiseStmt(e, self) == [err |-> e, self |-> self]
ReturnStmt(self) == [err |-> "none", self |-> self]

BaseStatement_limit(self, limit) ==
    ReturnStmt(Append1(self, Slot(<<"LIMIT", "?">>, QueryClause("LIMIT"), <<limit>>)))

BaseStatement_offset(self, offset) ==
    ReturnStmt(Append1(self, Slot(<<"OFFSET", "?">>, QueryClause("OFFSET"), <<offset>>)))

BaseStatement_where(self, clause) ==
    ReturnStmt(Append1(self, Slot(<<"WHERE">> \o clause.statement,
                                  QueryClause("WHERE"), clause.values)))

ColumnNames(columns) == Join([k \in 1..Len(columns) |-> <<columns[k].column_name>>], ",")

\* Mutation of group_by: _can_return_table is left as it was.
BaseStatement_group_by_keeps(self, columns) ==
    ReturnStmt(Append1(self, SlotNone(<<"GROUP", "BY">> \o ColumnNames(columns),
                                      QueryClause("GROUP_BY"))))

BaseStatement_group_by(self, columns) ==
    ReturnStmt([Append1(self, SlotNone(<<"GROUP", "BY">> \o ColumnNames(columns),
                                       QueryClause("GROUP_BY")))
                EXCEPT !.can_return_table = FALSE])

BaseStatement_order_by(self, columns, ascending) ==
    ReturnStmt(Append1(self,
        SlotNone(<<"ORDER", "BY">> \o ColumnNames(columns)
                    \o <<IF ascending THEN "ASC" ELSE "DESC">>,
                 QueryClause("ORDER_BY"))))

\* --- Query ---
Query_select_table(self, table_name) ==
    Append1(Append1(self, SlotNone(<<"SELECT", "*">>, QueryClause("SELECT"))),
            SlotNone(<<"FROM", table_name>>, QueryClause("FROM")))

\* Mutation of _select_columns: the tables of the columns are not compared.
Query_select_columns_any_table(self) ==
    IF self.select.columns = <<>> THEN RaiseStmt("EmptySelect", NoStmt)
    ELSE LET cs == self.select.columns
         IN ReturnStmt(
              Append1(Append1(self, SlotNone(<<"FROM", cs[1].table_name>>, QueryClause("FROM"))),
                      SlotNone(<<"SELECT">> \o
                                 Join([k \in 1..Len(cs) |-> get_query(cs[k])], ","),
                               QueryClause("SELECT"))))

Query_select_columns(self) ==
    IF self.select.columns = <<>> THEN RaiseStmt("EmptySelect", NoStmt)
    ELSE LET cs == self.select.columns
             table_name == cs[1].table_name
         IN IF \E k \in 1..Len(cs) : cs[k].table_name # table_name
            THEN RaiseStmt("CrossTable", NoStmt)
            ELSE ReturnStmt(
                   Append1(Append1(self, SlotNone(<<"FROM", table_name>>, QueryClause("FROM"))),
                           SlotNone(<<"SELECT">> \o
                                      Join([k \in 1..Len(cs) |-> get_query(cs[k])], ","),
                                    QueryClause("SELECT"))))

\* Query.__init__
Query(table_or_subquery) ==
    LET self == BaseStatement("Query", table_or_subquery)
    IN IF table_or_subquery.is_table
       THEN ReturnStmt(Query_select_table(self, table_or_subquery.table))
       ELSE Query_select_columns(self)

ClauseTypes(self) == {self.statements[k].ctype : k \in 1..Len(self.statements)}

\* Mutation of Query._validate_query: an OFFSET without a LIMIT is left alone.
Query_validate_query_unrepaired(self) ==
    LET clauses == ClauseTypes(self)
    IN IF QueryClause("SELECT") \notin clauses THEN RaiseStmt("MissingSelect", self)
       ELSE IF QueryClause("FROM") \notin clauses THEN RaiseStmt("MissingFrom", self)
       ELSE ReturnStmt(self)

\* Mutation of Query._validate_query: the LIMIT of the repair is added for
\* every OFFSET, whether the statement has a LIMIT or not.
Query_validate_query_repeats(self) ==
    LET clauses == ClauseTypes(self)
    IN IF QueryClause("SELECT") \notin clauses THEN RaiseStmt("MissingSelect", self)
       ELSE IF QueryClause("FROM") \notin clauses THEN RaiseStmt("MissingFrom", self)
       ELSE IF QueryClause("OFFSET") \in clauses
            THEN BaseStatement_limit(self, IntV(-1))
            ELSE ReturnStmt(self)

Query_validate_query(self) ==
    LET clauses == ClauseTypes(self)
    IN IF QueryClause("SELECT") \notin clauses THEN RaiseStmt("MissingSelect", self)
       ELSE IF QueryClause("FROM") \notin clauses THEN RaiseStmt("MissingFrom", self)
       ELSE IF QueryClause("OFFSET") \in clauses /\ QueryClause("LIMIT") \notin clauses
            THEN BaseStatement_limit(self, IntV(-1))
            ELSE ReturnStmt(self)

\* --- Update ---
Update_update_columns(self) ==
    Append1(self, SlotNone(<<"UPDATE", self.table_name>>, UpdateClause("UPDATE")))

RECURSIVE Flatten(_)
\* the concatenation of a sequence of sequences
Flatten(ss) == IF ss = <<>> THEN <<>> ELSE ss[1] \o Flatten(Tail(ss))

\* Mutation of _set_statement: the values are collected last assignment first.
Update_set_statement_reversed(self, set_statements) ==
    LET n == Len(set_statements)
        stm == <<"SET">> \o Join([k \in 1..n |-> set_statements[k].statement], ",")
        values == Flatten([k \in 1..n |-> set_statements[n + 1 - k].values])
    IN Append1(self, Slot(stm, UpdateClause("SET"), values))

Update_set_statement(self, set_statements) ==
    LET stm == <<"SET">> \o
               Join([k \in 1..Len(set_statements) |-> set_statements[k].statement], ",")
        values == Flatten([k \in 1..Len(set_statements) |-> set_statements[k].values])
    IN Append1(self, Slot(stm, UpdateClause("SET"), values))

\* Update.__init__ (table_or_subquery is a non-empty list of SetStatement)
Update(table_or_subquery) ==
    LET cols == [k \in 1..Len(table_or_subquery) |-> table_or_subquery[k].column]
        self0 == [BaseStatement("Update", OfColumns(cols))
                  EXCEPT !.table_name = table_or_subquery[1].column.table_name]
        self1 == Update_update_columns(self0)
    IN IF \E k \in 1..Len(cols) : cols[k].table_name # self0.table_name
       THEN RaiseStmt("CrossTable", NoStmt)
       ELSE ReturnStmt(Update_set_statement(self1, table_or_subquery))

Update_validate_query(self) ==
    LET clauses == ClauseTypes(self)
    IN IF UpdateClause("UPDATE") \notin clauses THEN RaiseStmt("MissingUpdate", self)
       ELSE IF UpdateClause("SET") \notin clauses THEN RaiseStmt("MissingSet", self)
       ELSE IF (UpdateClause("LIMIT") \in clauses \/ UpdateClause("OFFSET") \in clauses)
               /\ UpdateClause("RETURNING") \notin clauses
            THEN RaiseStmt("LimitWithoutReturning", self)
       ELSE IF UpdateClause("OFFSET") \in clauses /\ UpdateClause("LIMIT") \notin clauses
            THEN BaseStatement_limit(self, IntV(-1))
            ELSE ReturnStmt(self)

Update_returning(self, columns) ==
    IF Len(columns) = 0
    THEN ReturnStmt(Append1(self, SlotNone(<<"RETURNING", "*">>, UpdateClause("RETURNING"))))
    ELSE IF \E k \in 1..Len(columns) : columns[k].table_name # self.table_name
         THEN RaiseStmt("CrossTable", self)
         ELSE ReturnStmt(Append1(self,
                SlotNone(<<"RETURNING">> \o ColumnNames(columns),
                         UpdateClause("RETURNING"))))

\* --- Delete ---
\* Mutation of _delete_table: the statement's own table_name, which a delete
\* never sets, names the table.
Delete_delete_table_unnamed(self) ==
    IF ~self.select.is_table THEN RaiseStmt("InvalidDeleteTarget", NoStmt)
    ELSE ReturnStmt(Append1(self,
            SlotNone(<<"DELETE", "FROM", self.table_name>>, DeleteClause("DELETE"))))

Delete_delete_table(self) ==
    IF ~self.select.is_table THEN RaiseStmt("InvalidDeleteTarget", NoStmt)
    ELSE ReturnStmt(Append1(self,
            SlotNone(<<"DELETE", "FROM", self.select.table>>, DeleteClause("DELETE"))))

\* Delete.__init__
Delete(table_or_subquery) == Delete_delete_table(BaseStatement("Delete", table_or_subquery))

Delete_validate_query(self) ==
    IF DeleteClause("DELETE") \notin ClauseTypes(self)
    THEN RaiseStmt("MissingDelete", self)
    ELSE ReturnStmt(self)

Delete_returning(self, columns) ==
    IF Len(columns) = 0
    THEN ReturnStmt(Append1(self, SlotNone(<<"RETURNING", "*">>, DeleteClause("RETURNING"))))
    ELSE IF \E k \in 1..Len(columns) : columns[k].table_name # self.select.table
         THEN RaiseStmt("CrossTable", self)
         ELSE ReturnStmt([Append1(self,
                SlotNone(<<"RETURNING">> \o ColumnNames(columns),
                         DeleteClause("RETURNING")))
              EXCEPT !.can_return_table = FALSE])

Delete_order_by(self, columns, ascending) == RaiseStmt("InvalidOperationError", self)

\* Mutation of Delete.limit: the method of the base class, not overridden.
Delete_limit_inherited(self, limit) == BaseStatement_limit(self, limit)

Delete_limit(self, limit) == RaiseStmt("InvalidOperationError", self)

Delete_offset(self, offset) == RaiseStmt("InvalidOperationError", self)

Delete_group_by(self, columns) == RaiseStmt("InvalidOperationError", self)

\* --- method resolution: the class of self decides which method runs ---
limit(self, n) ==
    IF self.kind = "Delete" THEN Delete_limit(self, n) ELSE BaseStatement_limit(self, n)

offset(self, n) ==
    IF self.kind = "Delete" THEN Delete_offset(self, n) ELSE BaseStatement_offset(self, n)

group_by(self, columns) ==
    IF self.kind = "Delete" THEN Delete_group_by(self, columns)
    ELSE BaseStatement_group_by(self, columns)

order_by(self, columns, ascending) ==
    IF self.kind = "Delete" THEN Delete_order_by(self, columns, ascending)
    ELSE BaseStatement_order_by(self, columns, ascending)

where(self, clause) == BaseStatement_where(self, clause)

\* Query has no method returning: the call is an AttributeError.
returning(self, columns) ==
    CASE self.kind = "Update" -> Update_returning(self, columns)
      [] self.kind = "Delete" -> Delete_returning(self, columns)
      [] OTHER -> RaiseStmt("AttributeError", self)

validate_query(self) ==
    CASE self.kind = "Query" -> Query_validate_query(self)
      [] self.kind = "Update" -> Update_validate_query(self)
      [] self.kind = "Delete" -> Delete_validate_query(self)

(***************************************************************************)
(* Rendering (BaseStatement._build_statement)                              *)
(***************************************************************************)
RECURSIVE InsertSorted(_, _)
\* x placed into the sorted sequence s after every element whose rank is not
\* greater: with SortByValue, the stable sort of list.sort(key=...).
InsertSorted(s, x) ==
    IF s = <<>> THEN <<x>>
    ELSE IF s[Len(s)].ctype.value <= x.ctype.value THEN Append(s, x)
    ELSE Append(InsertSorted(SubSeq(s, 1, Len(s) - 1), x), s[Len(s)])

\* Mutation of the sort: the slots stay in call order.
SortByValue_unsorted(s) == s

RECURSIVE SortByValue(_)
\* self.statements.sort(key=lambda x: x[1].value)
SortByValue(s) ==
    IF s = <<>> THEN <<>>
    ELSE InsertSorted(SortByValue(SubSeq(s, 1, Len(s) - 1)), s[Len(s)])

\* _convert_values (src/porus/utilities.py): the first test lets str, int,
\* float, bytes and None through, and a bool is an int.
convert_value(v) ==
    IF v.ty \in {"str", "int", "float", "bytes", "none"} \/ IsInstance(v, "int") THEN v
    ELSE IF v.ty = "bool" THEN IntV(v.i)
    ELSE [ty |-> "str", i |-> v.i]

convert_values(values) == [k \in 1..Len(values) |-> convert_value(values[k])]

RECURSIVE BuildLoop_unchecked(_, _, _, _)
\* Mutation of the loop: no test of clauses_added.
BuildLoop_unchecked(slots, k, acc, clauses_added) ==
    IF k > Len(slots) THEN acc
    ELSE BuildLoop_unchecked(slots, k + 1,
           [acc EXCEPT !.statement = @ \o slots[k].clause,
                       !.values = IF ~slots[k].none /\ slots[k].value # <<>>
                                  THEN @ \o slots[k].value ELSE @],
           clauses_added \cup {slots[k].ctype})

RECURSIVE BuildLoop(_, _, _, _)
\* the for loop of _build_statement over the sorted slots from position k
BuildLoop(slots, k, acc, clauses_added) ==
    IF k > Len(slots) THEN acc
    ELSE IF slots[k].ctype \in clauses_added
         THEN [acc EXCEPT !.err = "DuplicateClause"]
         ELSE BuildLoop(slots, k + 1,
                [acc EXCEPT !.statement = @ \o slots[k].clause,
                            !.values = IF ~slots[k].none /\ slots[k].value # <<>>
                                       THEN @ \o slots[k].value ELSE @],
                clauses_added \cup {slots[k].ctype})

\* _build_statement: [err, statement, values, self], self being the statement
\* object as the call leaves it.
build_statement(self) ==
    LET v == validate_query(self)
    IN IF v.err # "none"
       THEN [err |-> v.err, statement |-> <<>>, values |-> <<>>, self |-> v.self]
       ELSE LET sorted == [v.self EXCEPT !.statements = SortByValue(@)]
                r == BuildLoop(sorted.statements, 1,
                               [err |-> "none", statement |-> <<>>, values |-> <<>>,
                                self |-> sorted], {})
            IN IF r.err # "none" THEN [r EXCEPT !.statement = <<>>, !.values = <<>>]
               ELSE [r EXCEPT !.values = convert_values(@)]

(***************************************************************************)
(* The storage engine: sqlite3 behind Engine.conn, as the code uses it.    *)
(* It sees only the SQL text and the bound values. The database is         *)
(*   catalog    the names in sqlite_master                                 *)
(*   ddl        per table, its columns [name, affinity, pk] as created     *)
(*   rows       per table, its rows (tuples) in rowid order                *)
(*   committed  rows as of the last commit                                 *)
(* sqlite is taken in its default build (no UPDATE/DELETE ... LIMIT).      *)
(***************************************************************************)
Keywords == {"SELECT", "FROM", "WHERE", "GROUP", "ORDER", "LIMIT", "OFFSET",
             "UPDATE", "SET", "RETURNING", "DELETE", "INSERT", "VALUES", "CREATE"}

Min(S) == CHOOSE x \in S : \A y \in S : x <= y
Max(S) == CHOOSE x \in S : \A y \in S : x >= y

CountOf(s, t) == Cardinality({k \in 1..Len(s) : s[k] = t})

IndexOf(s, t) == IF \E k \in 1..Len(s) : s[k] = t
                 THEN Min({k \in 1..Len(s) : s[k] = t}) ELSE 0

RECURSIVE SegFrom(_, _)
\* the statement from token k on, cut at its keywords: <<[kw, body], ...>>
SegFrom(sql, k) ==
    IF k > Len(sql) THEN <<>>
    ELSE LET later == {j \in (k + 1)..Len(sql) : sql[j] \in Keywords}
             nxt == IF later = {} THEN Len(sql) + 1 ELSE Min(later)
         IN <<[kw |-> sql[k], body |-> SubSeq(sql, k + 1, nxt - 1)]>> \o SegFrom(sql, nxt)

Segments(sql) == SegFrom(sql, 1)

Kws(segs) == [k \in 1..Len(segs) |-> segs[k].kw]

HasKw(segs, kw) == \E k \in 1..Len(segs) : segs[k].kw = kw

BodyOf(segs, kw) == segs[CHOOSE k \in 1..Len(segs) : segs[k].kw = kw].body

RECURSIVE Placeholders(_, _)
\* the number of "?" in the first n segments
Placeholders(segs, n) ==
    IF n = 0 THEN 0 ELSE Placeholders(segs, n - 1) + CountOf(segs[n].body, "?")

\* the values bound to the placeholders of the segment of keyword kw
BindsOf(segs, kw, values) ==
    LET n == CHOOSE k \in 1..Len(segs) : segs[k].kw = kw
    IN SubSeq(values, Placeholders(segs, n - 1) + 1, Placeholders(segs, n))

RECURSIVE SplitBy(_, _)
\* the token sequence cut at each separator token
SplitBy(s, sep) ==
    IF IndexOf(s, sep) = 0 THEN <<s>>
    ELSE <<SubSeq(s, 1, IndexOf(s, sep) - 1)>>
         \o SplitBy(SubSeq(s, IndexOf(s, sep) + 1, Len(s)), sep)

\* The keyword order of a statement kind; 0 for a keyword it does not have.
SelectRank(kw) ==
    CASE kw = "SELECT" -> 1 [] kw = "FROM" -> 2 [] kw = "WHERE" -> 3 [] kw = "GROUP" -> 4
      [] kw = "ORDER" -> 5 [] kw = "LIMIT" -> 6 [] kw = "OFFSET" -> 7 [] OTHER -> 0

DeleteRank(kw) ==
    CASE kw = "DELETE" -> 1 [] kw = "FROM" -> 2 [] kw = "WHERE" -> 3
      [] kw = "RETURNING" -> 4 [] OTHER -> 0

UpdateRank(kw) ==
    CASE kw = "UPDATE" -> 1 [] kw = "SET" -> 2 [] kw = "WHERE" -> 3
      [] kw = "RETURNING" -> 4 [] OTHER -> 0

RankOf(kind, kw) ==
    CASE kind = "SELECT" -> SelectRank(kw)
      [] kind = "DELETE" -> DeleteRank(kw)
      [] kind = "UPDATE" -> UpdateRank(kw)

\* The keywords are ones the statement kind has, each once, in its order.
KeywordsInOrder(kind, segs) ==
    /\ \A k \in 1..Len(segs) : RankOf(kind, segs[k].kw) > 0
    /\ \A k \in 1..(Len(segs) - 1) :
          RankOf(kind, segs[k].kw) < RankOf(kind, segs[k + 1].kw)

ColIndex(cols, name) ==
    IF \E k \in 1..Len(cols) : cols[k].name = name
    THEN CHOOSE k \in 1..Len(cols) : cols[k].name = name ELSE 0

\* a comma-separated list of column names of the table
IsColumnList(toks, cols) ==
    /\ toks # <<>>
    /\ \A k \in 1..Len(SplitBy(toks, ",")) :
          /\ Len(SplitBy(toks, ",")[k]) = 1
          /\ ColIndex(cols, SplitBy(toks, ",")[k][1]) > 0

ColumnList(toks) == [k \in 1..Len(SplitBy(toks, ",")) |-> SplitBy(toks, ",")[k][1]]

SqlOps == {"=", "!=", "<", "<=", ">", ">="}

\* the position of the AND / OR that joins the two sides of ( <left> AND <right> ),
\* 0 when the tokens are not of that form
Connective(toks) ==
    LET Depth(k) == CountOf(SubSeq(toks, 1, k - 1), "(") - CountOf(SubSeq(toks, 1, k - 1), ")")
        at == {k \in 2..(Len(toks) - 1) : toks[k] \in {"AND", "OR"} /\ Depth(k) = 1}
    IN IF Len(toks) >= 5 /\ toks[1] = "(" /\ toks[Len(toks)] = ")" /\ at # {}
       THEN Min(at) ELSE 0

RECURSIVE IsCondition(_, _)
\* a condition: <column> <op> ?   or   <column> IN ( ? , ... , ? )
\* or   ( <condition> AND <condition> )   or   ( <condition> OR <condition> )
IsCondition(toks, cols) ==
    \/ /\ Len(toks) = 3
       /\ ColIndex(cols, toks[1]) > 0 /\ toks[2] \in SqlOps /\ toks[3] = "?"
    \/ /\ Len(toks) >= 5
       /\ ColIndex(cols, toks[1]) > 0 /\ toks[2] = "IN" /\ toks[3] = "("
       /\ toks[Len(toks)] = ")"
       /\ \A k \in 4..(Len(toks) - 1) : toks[k] = (IF k % 2 = 0 THEN "?" ELSE ",")
       /\ toks[Len(toks) - 1] = "?"
    \/ /\ Connective(toks) > 0
       /\ IsCondition(SubSeq(toks, 2, Connective(toks) - 1), cols)
       /\ IsCondition(SubSeq(toks, Connective(toks) + 1, Len(toks) - 1), cols)

\* sqlite's order of storage classes: NULL, then numbers, then text
ClassOf(v) == IF v.ty = "none" THEN 0 ELSE IF IsNum(v) THEN 1 ELSE 2

SqlLess(v, w) == ClassOf(v) < ClassOf(w) \/ (ClassOf(v) = ClassOf(w) /\ v.i < w.i)

SqlEq(v, w) == ClassOf(v) = ClassOf(w) /\ v.i = w.i

\* a comparison with NULL is never true
SqlCompare(op, v, w) ==
    IF v.ty = "none" \/ w.ty = "none" THEN FALSE
    ELSE CASE op = "=" -> SqlEq(v, w)
           [] op = "!=" -> ~SqlEq(v, w)
           [] op = "<" -> SqlLess(v, w)
           [] op = "<=" -> SqlLess(v, w) \/ SqlEq(v, w)
           [] op = ">" -> SqlLess(w, v)
           [] op = ">=" -> SqlLess(w, v) \/ SqlEq(v, w)

RECURSIVE EvalCondition(_, _, _, _)
\* the binds are those of the condition's placeholders, left to right
EvalCondition(toks, binds, cols, row) ==
    IF Connective(toks) > 0
    THEN LET left == SubSeq(toks, 2, Connective(toks) - 1)
             right == SubSeq(toks, Connective(toks) + 1, Len(toks) - 1)
             l == EvalCondition(left, SubSeq(binds, 1, CountOf(left, "?")), cols, row)
             r == EvalCondition(right, SubSeq(binds, CountOf(left, "?") + 1, Len(binds)),
                                cols, row)
         IN IF toks[Connective(toks)] = "AND" THEN l /\ r ELSE l \/ r
    ELSE IF toks[2] = "IN"
    THEN \E k \in 1..Len(binds) : SqlCompare("=", row[ColIndex(cols, toks[1])], binds[k])
    ELSE SqlCompare(toks[2], row[ColIndex(cols, toks[1])], binds[1])

\* the rows of a table the WHERE segment keeps (all of them without one)
Matches(segs, values, cols, row) ==
    ~HasKw(segs, "WHERE")
    \/ EvalCondition(BodyOf(segs, "WHERE"), BindsOf(segs, "WHERE", values), cols, row)

\* sqlite stores a bound bool as the integer it is
Stored(v) == IF v.ty = "bool" THEN IntV(v.i) ELSE v

Project(row, cols, names) == [k \in 1..Len(names) |-> row[ColIndex(cols, names[k])]]

\* an outcome of conn.execute: an error, or the rows the cursor yields and
\* the database afterwards
Failed(e, d) == [err |-> e, rows |-> <<>>, db |-> d]
Done(rows, d) == [err |-> "none", rows |-> rows, db |-> d]

\* the texts a str value can hold, by index
TextIndex(name) == CASE name = "" -> 0 [] name = "a" -> 1 [] name = "b" -> 2
                     [] name = "user" -> 3 [] name = "comment" -> 4

\* the elements of a finite set in the order of Less
SortSet(S, Less(_, _)) ==
    LET F[T \in SUBSET S] ==
          IF T = {} THEN <<>>
          ELSE LET m == CHOOSE x \in T : \A y \in T \ {x} : Less(x, y)
               IN <<m>> \o F[T \ {m}]
    IN F[S]

\* x placed into the sorted rows after the last row that is not greater
InsertRow(r, x, Less(_, _)) ==
    LET p == Max({0} \cup {j \in 1..Len(r) : ~Less(x, r[j])})
    IN SubSeq(r, 1, p) \o <<x>> \o SubSeq(r, p + 1, Len(r))

\* a stable sort of rows by Less
SortRows(s, Less(_, _)) ==
    LET F[k \in 0..Len(s)] == IF k = 0 THEN <<>> ELSE InsertRow(F[k - 1], s[k], Less)
    IN F[Len(s)]

\* tuples of values compared position by position; last_desc reverses the
\* comparison of the last position (ORDER BY a, b DESC)
TupleLess(a, b, last_desc) ==
    \E k \in 1..Len(a) :
       /\ \A j \in 1..(k - 1) : SqlEq(a[j], b[j]) \/ (a[j].ty = "none" /\ b[j].ty = "none")
       /\ IF k = Len(a) /\ last_desc THEN SqlLess(b[k], a[k]) ELSE SqlLess(a[k], b[k])

\* SELECT name FROM sqlite_master WHERE type='table' [AND name= <t>]
ExecCatalog(d, sql) ==
    LET base == <<"SELECT", "name", "FROM", "sqlite_master", "WHERE", "type='table'">>
        names == IF Len(sql) = 6 THEN d.catalog ELSE d.catalog \cap {sql[9]}
        NameLess(x, y) == TextIndex(x) < TextIndex(y)
        sorted == SortSet(names, NameLess)
    IN IF SubSeq(sql, 1, 6) = base
          /\ (Len(sql) = 6 \/ (Len(sql) = 9 /\ sql[7] = "AND" /\ sql[8] = "name="))
       THEN {Done([k \in 1..Len(sorted) |-> <<StrV(TextIndex(sorted[k]))>>], d)}
       ELSE {Failed("OperationalError", d)}

\* CREATE TABLE <name> ( <column> <affinity> [PRIMARY KEY] , ... )
ExecCreate(d, sql) ==
    LET name == sql[3]
        defs == SplitBy(SubSeq(sql, 5, Len(sql) - 1), ",")
        DefOk(x) == Len(x) = 2 \/ (Len(x) = 4 /\ x[3] = "PRIMARY" /\ x[4] = "KEY")
        cols == [k \in 1..Len(defs) |->
                   [name |-> defs[k][1], aff |-> defs[k][2], pk |-> Len(defs[k]) = 4]]
    IN IF Len(sql) < 7 \/ sql[2] # "TABLE" \/ sql[4] # "(" \/ sql[Len(sql)] # ")"
          \/ \E k \in 1..Len(defs) : ~DefOk(defs[k])
       THEN {Failed("OperationalError", d)}
       ELSE IF name \in d.catalog \/ Cardinality({k \in 1..Len(cols) : cols[k].pk}) > 1
       THEN {Failed("OperationalError", d)}
       ELSE {Done(<<>>, [d EXCEPT !.catalog = @ \cup {name},
                                  !.ddl[name] = cols,
                                  !.rows[name] = <<>>])}

\* INSERT INTO <t> ( <columns> ) VALUES ( ?, ... ) RETURNING * ;
ExecInsert(d, segs, values) ==
    LET into == segs[1].body
        t == into[2]
        cols == d.ddl[t]
        names == ColumnList(SubSeq(into, 4, Len(into) - 1))
        vbody == BodyOf(segs, "VALUES")
        pkcol == IF \E k \in 1..Len(cols) : cols[k].pk
                 THEN CHOOSE k \in 1..Len(cols) : cols[k].pk ELSE 0
        rowid == IF d.rows[t] = <<>> \/ pkcol = 0 THEN 1
                 ELSE Max({d.rows[t][k][pkcol].i : k \in 1..Len(d.rows[t])}) + 1
        row == [k \in 1..Len(cols) |->
                  IF IndexOf(names, cols[k].name) > 0
                  THEN Stored(values[IndexOf(names, cols[k].name)])
                  ELSE IF cols[k].pk /\ cols[k].aff = "INTEGER" THEN IntV(rowid)
                  ELSE NoneV]
        PkLess(a, b) == pkcol > 0 /\ SqlLess(a[pkcol], b[pkcol])
    IN IF ~(Kws(segs) \in {<<"INSERT", "VALUES">>, <<"INSERT", "VALUES", "RETURNING">>})
          \/ Len(into) < 5 \/ into[1] # "INTO" \/ into[3] # "(" \/ into[Len(into)] # ")"
          \/ Len(vbody) < 3 \/ vbody[1] # "(" \/ vbody[Len(vbody)] # ")"
          \/ (HasKw(segs, "RETURNING") /\ BodyOf(segs, "RETURNING") # <<"*", ";">>)
       THEN {Failed("OperationalError", d)}    \* syntax error, incomplete input
       ELSE IF t \notin d.catalog \/ ~IsColumnList(SubSeq(into, 4, Len(into) - 1), cols)
               \/ CountOf(vbody, "?") # Len(names)
       THEN {Failed("OperationalError", d)}    \* no such table or column
       ELSE IF Placeholders(segs, Len(segs)) # Len(values)
       THEN {Failed("ProgrammingError", d)}    \* wrong number of bindings
       ELSE IF pkcol > 0 /\ \E k \in 1..Len(d.rows[t]) : SqlEq(d.rows[t][k][pkcol], row[pkcol])
       THEN {Failed("IntegrityError", d)}      \* UNIQUE constraint failed
       ELSE {Done(IF HasKw(segs, "RETURNING") THEN <<row>> ELSE <<>>,
                  [d EXCEPT !.rows[t] = SortRows(Append(@, row), PkLess)])}

\* the aggregate functions (ColumnFunction in src/porus/column.py)
AggFuncs == {"COUNT", "MAX", "MIN", "SUM", "AVG"}

\* an item of a SELECT list: a column, or FUNC ( column )
IsAggregate(item) ==
    Len(item) = 4 /\ item[1] \in AggFuncs /\ item[2] = "(" /\ item[4] = ")"

IsSelectList(toks, cols) ==
    /\ toks # <<>>
    /\ \A k \in 1..Len(SplitBy(toks, ",")) :
          LET item == SplitBy(toks, ",")[k]
          IN \/ Len(item) = 1 /\ ColIndex(cols, item[1]) > 0
             \/ IsAggregate(item) /\ ColIndex(cols, item[3]) > 0

\* the sum of the numbers of a sequence of values; text counts as 0
SumOf(vs) ==
    LET F[k \in 0..Len(vs)] ==
          IF k = 0 THEN 0 ELSE F[k - 1] + (IF IsNum(vs[k]) THEN vs[k].i ELSE 0)
    IN F[Len(vs)]

\* an aggregate over the values of a group; NULLs are left out. The numbers
\* of the model are whole: AVG gives the quotient rounded down.
AggValue(func, vs) ==
    LET nn == SelectSeq(vs, LAMBDA v : v.ty # "none")
        whole == \A k \in 1..Len(nn) : nn[k].ty \in {"int", "bool"}
    IN CASE func = "COUNT" -> IntV(Len(nn))
         [] nn = <<>> -> NoneV
         [] func = "MIN" -> CHOOSE x \in Range(nn) : \A y \in Range(nn) : ~SqlLess(y, x)
         [] func = "MAX" -> CHOOSE x \in Range(nn) : \A y \in Range(nn) : ~SqlLess(x, y)
         [] func = "SUM" -> IF whole THEN IntV(SumOf(nn)) ELSE FloatV(SumOf(nn))
         [] func = "AVG" -> FloatV(SumOf(nn) \div Len(nn))

\* SELECT * | <columns> FROM <t> [WHERE ..] [GROUP BY ..] [ORDER BY ..]
\*   [LIMIT ? [OFFSET ?]]
ExecSelect(d, segs, values) ==
    LET t == BodyOf(segs, "FROM")[1]
        cols == d.ddl[t]
        sel == segs[1].body
        items == IF sel = <<"*">> THEN <<>> ELSE SplitBy(sel, ",")
        aggregated == \E k \in 1..Len(items) : IsAggregate(items[k])
        Keep(row) == Matches(segs, values, cols, row)
        kept == SelectSeq(d.rows[t], Keep)
        gnames == ColumnList(Tail(BodyOf(segs, "GROUP")))
        obody == BodyOf(segs, "ORDER")
        onames == ColumnList(SubSeq(obody, 2, Len(obody) - 1))
        desc == obody[Len(obody)] = "DESC"
        KeyLess(a, b) == TupleLess(a, b, FALSE)
        keys == SortSet({Project(kept[k], cols, gnames) : k \in 1..Len(kept)}, KeyLess)
        \* the groups of rows: those of GROUP BY; all rows as one group for an
        \* aggregate without GROUP BY; else each row by itself
        groups == IF HasKw(segs, "GROUP")
                  THEN [g \in 1..Len(keys) |->
                          SelectSeq(kept, LAMBDA r : Project(r, cols, gnames) = keys[g])]
                  ELSE IF aggregated THEN <<kept>>
                  ELSE [k \in 1..Len(kept) |-> <<kept[k]>>]
        null_row == [k \in 1..Len(cols) |-> NoneV]
        \* a bare column of a group is taken from any row of the group
        picks == {f \in [1..Len(groups) -> Range(kept) \cup {null_row}] :
                     \A g \in 1..Len(groups) :
                        IF groups[g] = <<>> THEN f[g] = null_row ELSE f[g] \in Range(groups[g])}
        grouped == {[g \in 1..Len(groups) |-> [rep |-> f[g], rows |-> groups[g]]] : f \in picks}
        OrderLess(a, b) ==
            TupleLess(Project(a.rep, cols, onames), Project(b.rep, cols, onames), desc)
        Ordered(rs) == IF HasKw(segs, "ORDER") THEN SortRows(rs, OrderLess) ELSE rs
        lim == IF HasKw(segs, "LIMIT") THEN BindsOf(segs, "LIMIT", values)[1].i ELSE -1
        off == IF HasKw(segs, "OFFSET") THEN BindsOf(segs, "OFFSET", values)[1].i ELSE 0
        Window(rs) ==
            LET from == (IF off < 0 THEN 0 ELSE off) + 1
                upto == IF lim < 0 \/ from + lim - 1 > Len(rs) THEN Len(rs) ELSE from + lim - 1
            IN SubSeq(rs, from, upto)
        Item(e, item) ==
            IF IsAggregate(item)
            THEN AggValue(item[1], [k \in 1..Len(e.rows) |-> e.rows[k][ColIndex(cols, item[3])]])
            ELSE e.rep[ColIndex(cols, item[1])]
        Shown(rs) == IF sel = <<"*">> THEN [k \in 1..Len(rs) |-> rs[k].rep]
                     ELSE [k \in 1..Len(rs) |-> [i \in 1..Len(items) |-> Item(rs[k], items[i])]]
    IN IF ~KeywordsInOrder("SELECT", segs) \/ Len(segs) < 2 \/ segs[2].kw # "FROM"
          \/ Len(BodyOf(segs, "FROM")) # 1
          \/ (HasKw(segs, "OFFSET") /\ ~HasKw(segs, "LIMIT"))
          \/ (HasKw(segs, "LIMIT") /\ BodyOf(segs, "LIMIT") # <<"?">>)
          \/ (HasKw(segs, "OFFSET") /\ BodyOf(segs, "OFFSET") # <<"?">>)
          \/ (HasKw(segs, "GROUP") /\ (BodyOf(segs, "GROUP") = <<>> \/ BodyOf(segs, "GROUP")[1] # "BY"))
          \/ (HasKw(segs, "ORDER") /\ (Len(obody) < 3 \/ obody[1] # "BY"
                                        \/ obody[Len(obody)] \notin {"ASC", "DESC"}))
       THEN {Failed("OperationalError", d)}    \* syntax error
       ELSE IF t \notin d.catalog
               \/ (sel # <<"*">> /\ ~IsSelectList(sel, cols))
               \/ (HasKw(segs, "WHERE") /\ ~IsCondition(BodyOf(segs, "WHERE"), cols))
               \/ (HasKw(segs, "GROUP") /\ ~IsColumnList(Tail(BodyOf(segs, "GROUP")), cols))
               \/ (HasKw(segs, "ORDER") /\ ~IsColumnList(SubSeq(obody, 2, Len(obody) - 1), cols))
       THEN {Failed("OperationalError", d)}    \* no such table or column
       ELSE IF Placeholders(segs, Len(segs)) # Len(values)
       THEN {Failed("ProgrammingError", d)}
       ELSE {Done(Shown(Window(Ordered(rs))), d) : rs \in grouped}

\* RETURNING * | <columns>
IsReturning(toks, cols) == toks = <<"*">> \/ IsColumnList(toks, cols)

Returned(segs, cols, rows) ==
    IF ~HasKw(segs, "RETURNING") THEN <<>>
    ELSE IF BodyOf(segs, "RETURNING") = <<"*">> THEN rows
    ELSE [k \in 1..Len(rows) |-> Project(rows[k], cols, ColumnList(BodyOf(segs, "RETURNING")))]

\* DELETE FROM <t> [WHERE ..] [RETURNING ..]
ExecDelete(d, segs, values) ==
    LET t == BodyOf(segs, "FROM")[1]
        cols == d.ddl[t]
        Keep(row) == ~Matches(segs, values, cols, row)
        Gone(row) == Matches(segs, values, cols, row)
    IN IF ~KeywordsInOrder("DELETE", segs) \/ Len(segs) < 2 \/ segs[2].kw # "FROM"
          \/ segs[1].body # <<>> \/ Len(BodyOf(segs, "FROM")) # 1
       THEN {Failed("OperationalError", d)}    \* syntax error
       ELSE IF t \notin d.catalog
               \/ (HasKw(segs, "WHERE") /\ ~IsCondition(BodyOf(segs, "WHERE"), cols))
               \/ (HasKw(segs, "RETURNING") /\ ~IsReturning(BodyOf(segs, "RETURNING"), cols))
       THEN {Failed("OperationalError", d)}    \* no such table or column
       ELSE IF Placeholders(segs, Len(segs)) # Len(values)
       THEN {Failed("ProgrammingError", d)}
       ELSE {Done(Returned(segs, cols, SelectSeq(d.rows[t], Gone)),
                  [d EXCEPT !.rows[t] = SelectSeq(@, Keep)])}

\* <number> <op> <number>; text counts as 0, NULL gives NULL, x / 0 is NULL
Arith(op, a, b) ==
    LET x == IF IsNum(a) THEN a.i ELSE 0
        y == IF IsNum(b) THEN b.i ELSE 0
    IN IF a.ty = "none" \/ b.ty = "none" THEN NoneV
       ELSE CASE op = "+" -> IntV(x + y)
              [] op = "-" -> IntV(x - y)
              [] op = "*" -> IntV(x * y)
              [] op = "/" -> IF y = 0 THEN NoneV
                             ELSE IF (x < 0) = (y < 0)
                                  THEN IntV((IF x < 0 THEN -x ELSE x) \div (IF y < 0 THEN -y ELSE y))
                                  ELSE IntV(-((IF x < 0 THEN -x ELSE x) \div (IF y < 0 THEN -y ELSE y)))

\* an assignment of SET: <column> = <column> <op> ?
IsAssignment(toks, cols) ==
    /\ Len(toks) = 5
    /\ ColIndex(cols, toks[1]) > 0 /\ toks[2] = "=" /\ ColIndex(cols, toks[3]) > 0
    /\ toks[4] \in {"+", "-", "*", "/"} /\ toks[5] = "?"

\* UPDATE <t> SET <assignments> [WHERE ..] [RETURNING ..]
ExecUpdate(d, segs, values) ==
    LET t == segs[1].body[1]
        cols == d.ddl[t]
        sets == SplitBy(BodyOf(segs, "SET"), ",")
        binds == BindsOf(segs, "SET", values)
        \* every assignment reads the row as it was before the UPDATE
        New(row) ==
            [c \in 1..Len(row) |->
                IF \E k \in 1..Len(sets) : sets[k][1] = cols[c].name
                THEN LET k == Max({j \in 1..Len(sets) : sets[j][1] = cols[c].name})
                     IN Arith(sets[k][4], row[ColIndex(cols, sets[k][3])], binds[k])
                ELSE row[c]]
        Hit(row) == Matches(segs, values, cols, row)
        after == [k \in 1..Len(d.rows[t]) |->
                    IF Hit(d.rows[t][k]) THEN New(d.rows[t][k]) ELSE d.rows[t][k]]
        changed == [k \in 1..Len(SelectSeq(d.rows[t], Hit)) |-> New(SelectSeq(d.rows[t], Hit)[k])]
    IN IF ~KeywordsInOrder("UPDATE", segs) \/ Len(segs) < 2 \/ segs[2].kw # "SET"
          \/ Len(segs[1].body) # 1
       THEN {Failed("OperationalError", d)}    \* syntax error
       ELSE IF t \notin d.catalog
               \/ (\E k \in 1..Len(sets) : ~IsAssignment(sets[k], cols))
               \/ (HasKw(segs, "WHERE") /\ ~IsCondition(BodyOf(segs, "WHERE"), cols))
               \/ (HasKw(segs, "RETURNING") /\ ~IsReturning(BodyOf(segs, "RETURNING"), cols))
       THEN {Failed("OperationalError", d)}    \* no such table or column
       ELSE IF Placeholders(segs, Len(segs)) # Len(values)
       THEN {Failed("ProgrammingError", d)}
       ELSE {Done(Returned(segs, cols, changed), [d EXCEPT !.rows[t] = after])}

\* conn.execute(sql, values): the set of outcomes sqlite can give
Execute(d, sql, values) ==
    LET segs == Segments(sql)
    IN IF sql = <<>> \/ sql[1] \notin Keywords THEN {Failed("OperationalError", d)}
       ELSE CASE sql[1] = "CREATE" -> ExecCreate(d, sql)
              [] sql[1] = "INSERT" -> ExecInsert(d, segs, values)
              [] sql[1] = "SELECT" ->
                    IF HasKw(segs, "FROM") /\ BodyOf(segs, "FROM") = <<"sqlite_master">>
                    THEN ExecCatalog(d, sql) ELSE ExecSelect(d, segs, values)
              [] sql[1] = "DELETE" -> ExecDelete(d, segs, values)
              [] sql[1] = "UPDATE" -> ExecUpdate(d, segs, values)
              [] OTHER -> {Failed("OperationalError", d)}

\* conn.commit()
Commit(d) == [d EXCEPT !.committed = d.rows]

(***************************************************************************)
(* The Engine (src/porus/engine.py)                                        *)
(***************************************************************************)
\* _get_type (src/porus/utilities.py)
get_type(ann) ==
    CASE ann = "int" -> "INTEGER" [] ann = "str" -> "TEXT" [] ann = "float" -> "REAL"
      [] ann = "bool" -> "INTEGER" [] OTHER -> "BLOB"

\* What a call on the engine gives: the error it raises (or "none"), the
\* database and the caller's instances as it leaves them, what it returns,
\* the statements it sent to conn.execute and how often it committed.
Outcome(err, d, o, result, executed, commits) ==
    [err |-> err, db |-> d, objs |-> o, result |-> result, executed |-> executed,
     commits |-> commits]

Sent(sql, values) == [sql |-> sql, values |-> values]

\* _check_if_table_exists: {[err, exists]}. The statement is the first string
\* literal alone; the f-string on the next source line is an expression
\* statement of its own and is dropped.
Engine_check_if_table_exists_statement(table) ==
    LET statement == <<"SELECT", "name", "FROM", "sqlite_master", "WHERE", "type='table'">>
        dropped == <<"AND", "name=", table>>
    IN statement

Engine_check_if_table_exists(d, table) ==
    {[err |-> x.err, exists |-> x.rows # <<>>] :
        x \in Execute(d, Engine_check_if_table_exists_statement(table), <<>>)}

Engine_create_table_statement(table) ==
    LET fs == model_fields(table)
        columns == [k \in 1..Len(fs) |->
                      <<fs[k].name, get_type(fs[k].ann)>>
                      \o (IF fs[k].extra /\ fs[k].pk THEN <<"PRIMARY", "KEY">> ELSE <<>>)]
    IN <<"CREATE", "TABLE", table>> \o <<"(">> \o Join(columns, ",") \o <<")">>

\* _create_table: execute, then commit
Engine_create_table(d, o, table) ==
    LET statement == Engine_create_table_statement(table)
    IN {IF x.err # "none"
        THEN Outcome(x.err, x.db, o, <<>>, <<Sent(statement, <<>>)>>, 0)
        ELSE Outcome("none", Commit(x.db), o, <<>>, <<Sent(statement, <<>>)>>, 1)
        : x \in Execute(d, statement, <<>>)}

\* push
\* Mutation of push: the table is created without looking at the probe.
Engine_push_unconditional(d, o, table) ==
    LET probe == Sent(Engine_check_if_table_exists_statement(table), <<>>)
    IN {[x EXCEPT !.executed = <<probe>> \o @] : x \in Engine_create_table(d, o, table)}

Engine_push(d, o, table) ==
    LET probe == Sent(Engine_check_if_table_exists_statement(table), <<>>)
    IN UNION {IF c.err # "none" THEN {Outcome(c.err, d, o, <<>>, <<probe>>, 0)}
              ELSE IF ~c.exists
              THEN {[x EXCEPT !.executed = <<probe>> \o @] : x \in Engine_create_table(d, o, table)}
              ELSE {Outcome("none", d, o, <<>>, <<probe>>, 0)}
              : c \in Engine_check_if_table_exists(d, table)}

\* _convert_row_to_object: [err, obj]. table is an instance (is_instance, with
\* its current field values) or a class; row is None when no_row.
Engine_convert_row_to_object(is_instance, table_name, fields, no_row, row) ==
    LET fs == model_fields(table_name)
    IN IF no_row THEN [err |-> "TypeError", obj |-> fields]      \* len(None)
       ELSE IF Len(row) # Len(fs) THEN [err |-> "RowArityMismatch", obj |-> fields]
       ELSE IF is_instance
       THEN [err |-> "none",
             obj |-> [k \in 1..Len(fs) |-> IF ~PyEq(fields[k], row[k]) THEN row[k] ELSE fields[k]]]
       \* table(**row): pydantic validates every value against its annotation
       ELSE IF \E k \in 1..Len(fs) : ~IsInstance(row[k], fs[k].ann)
       THEN [err |-> "ValidationError", obj |-> fields]
       ELSE [err |-> "none", obj |-> row]

\* the keys and values insert names for one instance
InsertKeys(obj) ==
    LET fs == model_fields(obj.table)
        Named(k) == ~(fs[k].extra /\ fs[k].pk /\ ~Truthy(obj.fields[k]))
    IN SelectSeq([k \in 1..Len(fs) |-> k], Named)

Engine_insert_statement(obj) ==
    LET fs == model_fields(obj.table)
        keys == [j \in 1..Len(InsertKeys(obj)) |-> <<fs[InsertKeys(obj)[j]].name>>]
        statement == <<"INSERT", "INTO", obj.table, "(">> \o Join(keys, ",") \o <<")", "VALUES">>
        \* the second f-string is an expression statement of its own
        dropped == <<"(">> \o Join([j \in 1..Len(keys) |-> <<"?">>], ",")
                   \o <<")", "RETURNING", "*", ";">>
    IN statement

Engine_insert_values(obj) ==
    convert_values([j \in 1..Len(InsertKeys(obj)) |-> obj.fields[InsertKeys(obj)[j]]])

RECURSIVE InsertLoop(_, _, _, _, _, _)
\* the for loop of insert from the k-th instance of the batch on
InsertLoop(d, o, objs_, k, row_list, executed) ==
    IF k > Len(objs_)
    THEN {Outcome("none", Commit(d), o, row_list, executed, 1)}
    ELSE LET obj == o[objs_[k]]
             statement == Engine_insert_statement(obj)
             values == Engine_insert_values(obj)
             sent == Append(executed, Sent(statement, values))
         IN UNION {
              IF x.err # "none" THEN {Outcome(x.err, x.db, o, <<>>, sent, 0)}
              ELSE LET c == Engine_convert_row_to_object(TRUE, obj.table, obj.fields,
                                                         x.rows = <<>>,
                                                         IF x.rows = <<>> THEN <<>> ELSE x.rows[1])
                   IN IF c.err # "none" THEN {Outcome(c.err, x.db, o, <<>>, sent, 0)}
                      ELSE InsertLoop(x.db, [o EXCEPT ![objs_[k]].fields = c.obj], objs_,
                                      k + 1, Append(row_list, objs_[k]), sent)
              : x \in Execute(d, statement, values)}

\* insert: the result is the list of the instances (by identity)
Engine_insert(d, o, objs_) == InsertLoop(d, o, objs_, 1, <<>>, <<>>)

(***************************************************************************)
(* Terminal calls (BaseStatement.all / first)                              *)
(***************************************************************************)
NoResult == [kind |-> "None", rows |-> <<>>]

\* What a terminal call gives: the error it raises (or "none"), the database
\* and the statement object as it leaves them, the rendered SQL and values,
\* the statements sent to conn.execute, and what it returns.
StmtOutcome(err, d, self, statement, values, executed, result) ==
    [err |-> err, db |-> d, self |-> self, statement |-> statement, values |-> values,
     executed |-> executed, result |-> result]

ReturnsTable(self) == self.can_return_table /\ self.select.is_table

BaseStatement_all(d, self) ==
    LET b == build_statement(self)
        sent == <<Sent(b.statement, b.values)>>
        Conv(row) == Engine_convert_row_to_object(FALSE, b.self.select.table, <<>>, FALSE, row)
    IN IF b.err # "none"
       THEN {StmtOutcome(b.err, d, b.self, <<>>, <<>>, <<>>, NoResult)}
       ELSE {IF x.err # "none"
             THEN StmtOutcome(x.err, x.db, b.self, b.statement, b.values, sent, NoResult)
             ELSE IF ReturnsTable(b.self)
             THEN IF \E k \in 1..Len(x.rows) : Conv(x.rows[k]).err # "none"
                  THEN StmtOutcome(
                         Conv(x.rows[Min({k \in 1..Len(x.rows) : Conv(x.rows[k]).err # "none"})]).err,
                         x.db, b.self, b.statement, b.values, sent, NoResult)
                  ELSE StmtOutcome("none", x.db, b.self, b.statement, b.values, sent,
                         [kind |-> "objects",
                          rows |-> [k \in 1..Len(x.rows) |-> Conv(x.rows[k]).obj]])
             ELSE StmtOutcome("none", x.db, b.self, b.statement, b.values, sent,
                              [kind |-> "tuples", rows |-> x.rows])
             : x \in Execute(d, b.statement, b.values)}

BaseStatement_first(d, self) ==
    LET b == build_statement(self)
        sent == <<Sent(b.statement, b.values)>>
        Conv(no_row, row) ==
            Engine_convert_row_to_object(FALSE, b.self.select.table, <<>>, no_row, row)
    IN IF b.err # "none"
       THEN {StmtOutcome(b.err, d, b.self, <<>>, <<>>, <<>>, NoResult)}
       ELSE {IF x.err # "none"
             THEN StmtOutcome(x.err, x.db, b.self, b.statement, b.values, sent, NoResult)
             ELSE LET no_row == x.rows = <<>>        \* fetchone() gives None
                      row == IF no_row THEN <<>> ELSE x.rows[1]
                  IN IF ReturnsTable(b.self)
                     THEN IF Conv(no_row, row).err # "none"
                          THEN StmtOutcome(Conv(no_row, row).err, x.db, b.self, b.statement,
                                           b.values, sent, NoResult)
                          ELSE StmtOutcome("none", x.db, b.self, b.statement, b.values, sent,
                                           [kind |-> "object", rows |-> <<Conv(no_row, row).obj>>])
                     ELSE StmtOutcome("none", x.db, b.self, b.statement, b.values, sent,
                                      [kind |-> IF no_row THEN "None" ELSE "tuple",
                                       rows |-> IF no_row THEN <<>> ELSE <<row>>])
             : x \in Execute(d, b.statement, b.values)}

(***************************************************************************)
(* State                                                                   *)
(***************************************************************************)
\* The most rows a table holds when the engine is opened on the database.
MaxRows == 2
\* The largest number an UPDATE may store (execution is cut off above it).
MaxVal == 4

\* the columns sqlite holds for a table created from its schema
DdlOf(t) ==
    LET fs == model_fields(t)
    IN [k \in 1..Len(fs) |->
          [name |-> fs[k].name, aff |-> get_type(fs[k].ann), pk |-> fs[k].extra /\ fs[k].pk]]

\* a caller's Table instance
Instance(t, fields) == [table |-> t, fields |-> fields]

\* a row of table t with rowid n
RowsOf(t, n) ==
    IF t = "user" THEN {<<IntV(n), StrV(x)>> : x \in {1, 2}}
    ELSE {<<IntV(n), StrV(1), IntV(u)>> : u \in {1, 2}}

\* the contents a table can have when the engine is opened
TableContents(t) ==
    UNION {{r \in [1..n -> UNION {RowsOf(t, k) : k \in 1..n}] :
               \A k \in 1..n : r[k] \in RowsOf(t, k)} : n \in 0..MaxRows}

\* Engine.__init__ connects to the database at the path, whatever it holds
Databases ==
    UNION {{[catalog |-> c,
             ddl |-> [t \in TableNames |-> IF t \in c THEN DdlOf(t) ELSE <<>>],
             rows |-> r, committed |-> r] :
               r \in {q \in [TableNames -> UNION {TableContents(t) : t \in TableNames}] :
                        \A t \in TableNames :
                           q[t] \in (IF t \in c THEN TableContents(t) ELSE {<<>>})}}
           : c \in SUBSET TableNames}

\* the database the statement specifications start from: both tables pushed,
\* two rows in each
Populated ==
    [catalog |-> TableNames,
     ddl |-> [t \in TableNames |-> DdlOf(t)],
     rows |-> [t \in TableNames |->
                 IF t = "user" THEN <<<<IntV(1), StrV(1)>>, <<IntV(2), StrV(2)>>>>
                 ELSE <<<<IntV(1), StrV(1), IntV(1)>>, <<IntV(2), StrV(1), IntV(2)>>>>],
     committed |-> [t \in TableNames |->
                 IF t = "user" THEN <<<<IntV(1), StrV(1)>>, <<IntV(2), StrV(2)>>>>
                 ELSE <<<<IntV(1), StrV(1), IntV(1)>>, <<IntV(2), StrV(1), IntV(2)>>>>]]

\* the instances the caller has constructed: User(name="a"),
\* User(id=2, name="b"), Comment(comment="a", user_id=1)
Instances ==
    <<Instance("user", <<NoneV, StrV(1)>>),
      Instance("user", <<IntV(2), StrV(2)>>),
      Instance("comment", <<NoneV, StrV(1), IntV(1)>>)>>

\* What the last call was and did.
Last(op, args, err, before, statement, values, executed, result, commits) ==
    [op |-> op, args |-> args, err |-> err, before |-> before, statement |-> statement,
     values |-> values, executed |-> executed, result |-> result, commits |-> commits]

NoLast == Last("none", <<>>, "none", NoStmt, <<>>, <<>>, <<>>, NoResult, 0)

(***************************************************************************)
(* Actions: one per call of the API                                        *)
(***************************************************************************)
\* engine.push(table); the call is recorded with whether push was called for
\* the schema before
Push(table) ==
    \E x \in Engine_push(db, objs, table) :
       /\ db' = x.db
       /\ objs' = x.objs
       /\ pushed' = pushed \cup {table}
       /\ last' = Last("push", <<table, table \in pushed>>, x.err, NoStmt, <<>>, <<>>,
                       x.executed, NoResult, x.commits)
       /\ UNCHANGED <<wclause, stmt>>

\* engine.insert(objs): objs_ lists instances by identity
Insert(objs_) ==
    \E x \in Engine_insert(db, objs, objs_) :
       /\ db' = x.db
       /\ objs' = x.objs
       /\ last' = Last("insert", objs_, x.err, NoStmt, <<>>, <<>>, x.executed,
                       [kind |-> "ids", rows |-> x.result], x.commits)
       /\ UNCHANGED <<wclause, stmt, pushed>>

\* column <op> other, for the column Table.c.<field> of a schema
ColumnCompare(table, field, op, other) ==
    LET x == Compare(GenericColumn_getattr(table, field), op, other)
    IN /\ wclause' = IF x.err = "none" THEN x.clause ELSE wclause
       /\ last' = Last("compare", <<table, field, op, other>>, x.err, NoStmt, <<>>, <<>>,
                       <<>>, NoResult, 0)
       /\ UNCHANGED <<db, objs, stmt, pushed>>

\* column[other], for the column Table.c.<field> of a schema
ColumnIn(table, field, other) ==
    LET x == Column_getitem(GenericColumn_getattr(table, field), other)
    IN /\ wclause' = IF x.err = "none" THEN x.clause ELSE wclause
       /\ last' = Last("in", <<table, field, other>>, x.err, NoStmt, <<>>, <<>>,
                       <<>>, NoResult, 0)
       /\ UNCHANGED <<db, objs, stmt, pushed>>

\* clause & other, clause | other on the clause the caller holds; the call is
\* recorded with both operands as they were before it. __and__ and __or__
\* assign self.statement, extend the list self.values in place and return
\* self: the clause held afterwards is the object returned, and a slot that
\* holds its list sees the extension.
And(other, bound) ==
    /\ wclause # NoClause
    /\ Len(wclause.values) + Len(other.values) <= bound
    /\ wclause' = WhereStatement_and(wclause, other)
    /\ stmt' = Aliased(stmt, wclause'.values)
    /\ last' = Last("and", <<wclause, other>>, "none", stmt, <<>>, <<>>, <<>>, NoResult, 0)
    /\ UNCHANGED <<db, objs, pushed>>

Or(other, bound) ==
    /\ wclause # NoClause
    /\ Len(wclause.values) + Len(other.values) <= bound
    /\ wclause' = WhereStatement_or(wclause, other)
    /\ stmt' = Aliased(stmt, wclause'.values)
    /\ last' = Last("or", <<wclause, other>>, "none", stmt, <<>>, <<>>, <<>>, NoResult, 0)
    /\ UNCHANGED <<db, objs, pushed>>

\* _convert_values(values) on a list the caller holds, and again on the list
\* it returned
Convert ==
    /\ last.op = "input"
    /\ last' = Last("convert", last.args, "none", NoStmt, <<>>, convert_values(last.args),
                    <<>>, NoResult, 0)
    /\ UNCHANGED <<db, objs, wclause, stmt, pushed>>

ConvertAgain ==
    /\ last.op = "convert"
    /\ last' = Last("convert_again", last.values, "none", NoStmt, <<>>,
                    convert_values(last.values), <<>>, NoResult, 0)
    /\ UNCHANGED <<db, objs, wclause, stmt, pushed>>

\* column.max() / min() / sum() / count() / avg(), by the name of the function
Aggregate(self, func) ==
    CASE func = "MAX" -> Column_max(self)
      [] func = "MIN" -> Column_min(self)
      [] func = "SUM" -> Column_sum(self)
      [] func = "COUNT" -> Column_count(self)
      [] func = "AVG" -> Column_avg(self)

\* what a call on a column expression returned: the column expression
Returned1(column) == [kind |-> "column", rows |-> <<column>>]

\* Table.c.<field>.<func>(): the caller holds the column the call returns
ColumnAggregate(table, field, func) ==
    /\ last' = Last("aggregate", <<GenericColumn_getattr(table, field), func>>, "none", NoStmt,
                    <<>>, <<>>, <<>>,
                    Returned1(Aggregate(GenericColumn_getattr(table, field), func)), 0)
    /\ UNCHANGED <<db, objs, wclause, stmt, pushed>>

\* the calls below are made on the column an aggregate call returned
HoldsAggregated == last.op \in {"aggregate", "aggregate_again"}

\* column.<func>() once more
AggregateAgain(func) ==
    /\ HoldsAggregated
    /\ last' = Last("aggregate_again", <<last.result.rows[1], func>>, "none", NoStmt,
                    <<>>, <<>>, <<>>, Returned1(Aggregate(last.result.rows[1], func)), 0)
    /\ UNCHANGED <<db, objs, wclause, stmt, pushed>>

\* column <op> other
AggregatedCompare(op, other) ==
    /\ HoldsAggregated
    /\ LET x == Compare(last.result.rows[1], op, other)
       IN /\ wclause' = IF x.err = "none" THEN x.clause ELSE wclause
          /\ last' = Last("aggregated_compare", <<last.result.rows[1], op, other>>, x.err,
                          NoStmt, <<>>, <<>>, <<>>, NoResult, 0)
    /\ UNCHANGED <<db, objs, stmt, pushed>>

\* column[other]
AggregatedIn(other) ==
    /\ HoldsAggregated
    /\ LET x == Column_getitem(last.result.rows[1], other)
       IN /\ wclause' = IF x.err = "none" THEN x.clause ELSE wclause
          /\ last' = Last("aggregated_in", <<last.result.rows[1], other>>, x.err,
                          NoStmt, <<>>, <<>>, <<>>, NoResult, 0)
    /\ UNCHANGED <<db, objs, stmt, pushed>>

\* column + other, column / other: the SET assignment is what the call returns
AggregatedArithmetic(op, other) ==
    /\ HoldsAggregated
    /\ LET x == IF op = "add" THEN Column_add(last.result.rows[1], other)
                ELSE Column_truediv(last.result.rows[1], other)
       IN last' = Last("aggregated_arithmetic", <<last.result.rows[1], op, other>>, x.err,
                       NoStmt, <<>>, <<>>, <<>>, [kind |-> "set", rows |-> <<x.set>>], 0)
    /\ UNCHANGED <<db, objs, wclause, stmt, pushed>>

\* A builder call leaves the statement object as the method left it and
\* records its error.
Built(op, args, x) ==
    /\ stmt' = x.self
    /\ last' = Last(op, args, x.err, stmt, <<>>, <<>>, <<>>, NoResult, 0)
    /\ UNCHANGED <<db, objs, wclause, pushed>>

\* engine.query(...), engine.update(...), engine.delete(...): a behaviour
\* follows one statement object from its construction on.
NewQuery(select) ==
    /\ stmt.kind = "None"
    /\ Built("query", <<select>>, Query(select))

NewUpdate(sets) ==
    /\ stmt.kind = "None"
    /\ Built("update", sets, Update(sets))

NewDelete(table) ==
    /\ stmt.kind = "None"
    /\ Built("delete", <<table>>, Delete(OfTable(table)))

\* the slots the clause-adding calls (and validation) have added
Added(self) == Len(self.statements) - (IF self.kind = "Delete" THEN 1 ELSE 2)

CanChain(bound) == stmt.kind # "None" /\ Added(stmt) < bound

Limit(n, bound) ==
    /\ CanChain(bound)
    /\ Built("limit", <<n>>, limit(stmt, n))

Offset(n, bound) ==
    /\ CanChain(bound)
    /\ Built("offset", <<n>>, offset(stmt, n))

\* statement.where(Table.c.<field> <op> other)
Where(table, field, op, other, bound) ==
    /\ CanChain(bound)
    /\ LET c == Compare(GenericColumn_getattr(table, field), op, other)
       IN Built("where", <<table, field, op, other>>,
                IF c.err # "none" THEN RaiseStmt(c.err, stmt) ELSE where(stmt, c.clause))

\* statement.where(clause) with the clause the caller holds: the slot keeps
\* the text the clause has now and the list object clause.values
WhereClause(bound) ==
    /\ CanChain(bound)
    /\ wclause # NoClause
    /\ LET x == where(stmt, wclause)
       IN Built("where_clause", <<wclause>>,
                [x EXCEPT !.self.statements[Len(x.self.statements)].shared = TRUE])

GroupBy(columns, bound) ==
    /\ CanChain(bound)
    /\ Built("group_by", columns, group_by(stmt, columns))

OrderBy(columns, ascending, bound) ==
    /\ CanChain(bound)
    /\ Built("order_by", <<columns, ascending>>, order_by(stmt, columns, ascending))

Returning(columns, bound) ==
    /\ CanChain(bound)
    /\ Built("returning", columns, returning(stmt, columns))

\* no number above MaxVal is stored
WithinCap(d) ==
    \A t \in TableNames : \A k \in 1..Len(d.rows[t]) : \A c \in 1..Len(d.rows[t][k]) :
       d.rows[t][k][c].i <= MaxVal /\ d.rows[t][k][c].i >= -MaxVal

Terminal(op, x) ==
    /\ WithinCap(x.db)
    /\ db' = x.db
    /\ stmt' = x.self
    /\ last' = Last(op, <<>>, x.err, stmt, x.statement, x.values, x.executed, x.result, 0)
    /\ UNCHANGED <<objs, wclause, pushed>>

All ==
    /\ stmt.kind # "None"
    /\ \E x \in BaseStatement_all(db, stmt) : Terminal("all", x)

First ==
    /\ stmt.kind # "None"
    /\ \E x \in BaseStatement_first(db, stmt) : Terminal("first", x)

(***************************************************************************)
(* Specifications                                                          *)
(***************************************************************************)
UserId == GenericColumn_getattr("user", "id")
UserName == GenericColumn_getattr("user", "name")
CommentId == GenericColumn_getattr("comment", "id")
CommentUserId == GenericColumn_getattr("comment", "user_id")

\* --- Spec: one statement of any kind over the populated database ---
Init ==
    /\ db = Populated
    /\ objs = Instances
    /\ wclause = NoClause
    /\ stmt = NoStmt
    /\ pushed = {}
    /\ last = NoLast

\* the column Table.c.id of the statement's own table
OwnId == IF stmt.kind = "Update" THEN CommentId ELSE UserId

Next ==
    \/ NewQuery (OfTable("user"))
    \/ NewUpdate(<<Column_add(CommentUserId, IntV(1)).set>>)
    \/ NewDelete("user")
    \/ \E n \in {1, 2} : Limit(IntV(n), MaxClauses)
    \/ \E n \in {0, 1} : Offset(IntV(n), MaxClauses)
    \/ \E v \in {IntV(1), IntV(2), StrV(1)} : Where("user", "id", "eq", v, MaxClauses)
    \/ GroupBy(<<UserId>>, MaxClauses)
    \/ \E asc \in BOOLEAN : OrderBy(<<UserId>>, asc, MaxClauses)
    \/ \E cs \in {<<>>, <<OwnId>>} : Returning(cs, MaxClauses)
    \/ All
    \/ First

Spec == Init /\ [][Next]_vars

\* --- SpecQuery: a select statement with every clause kind ---
\* The most clause-adding calls chained on a select statement.
MaxQueryClauses == 5

NextQuery ==
    \/ \E sel \in {OfTable("user"), OfColumns(<<UserName, UserId>>)} : NewQuery(sel)
    \/ \E n \in {1, 2} : Limit(IntV(n), MaxQueryClauses)
    \/ Offset(IntV(1), MaxQueryClauses)
    \/ Where("user", "id", "ge", IntV(1), MaxQueryClauses)
    \/ GroupBy(<<UserName>>, MaxQueryClauses)
    \/ OrderBy(<<UserId>>, FALSE, MaxQueryClauses)
    \/ All
    \/ First

SpecQuery == Init /\ [][NextQuery]_vars

\* --- SpecEngine: push and insert on a database the engine was opened on ---
InitEngine ==
    /\ db \in Databases
    /\ objs = Instances
    /\ wclause = NoClause
    /\ stmt = NoStmt
    /\ pushed = {}
    /\ last = NoLast

Batches == {<<a>> : a \in 1..Len(Instances)}
             \cup {<<a, b>> : a \in 1..Len(Instances), b \in 1..Len(Instances)}

NextEngine ==
    \/ \E t \in TableNames : Push(t)
    \/ \E b \in Batches : Insert(b)

SpecEngine == InitEngine /\ [][NextEngine]_vars

\* --- SpecColumn: the comparison operators of every column ---
Operands == {IntV(1), IntV(2), StrV(1), StrV(2), BoolV(1), FloatV(1), NoneV}

NextColumn ==
    \E t \in TableNames : \E f \in FieldNames(t) : \E op \in CompareOps : \E v \in Operands :
       ColumnCompare(t, f, op, v)

SpecColumn == Init /\ [][NextColumn]_vars

\* --- SpecIn: the IN operator of every column ---
\* The most elements of the operand of IN.
MaxInList == 2

RECURSIVE SeqsUpTo(_, _)
\* the sequences over S of length n at most
SeqsUpTo(S, n) ==
    IF n = 0 THEN {<<>>}
    ELSE LET T == SeqsUpTo(S, n - 1)
         IN T \cup {Append(t, x) : t \in {u \in T : Len(u) = n - 1}, x \in S}

InOperands ==
    {ScalarOf(IntV(1)), ScalarOf(StrV(1))}
      \cup {ListOf(t) : t \in SeqsUpTo({IntV(1), StrV(1), BoolV(1)}, MaxInList)}
      \cup {TupleOf(t) : t \in SeqsUpTo({IntV(2), StrV(2)}, MaxInList)}

NextIn ==
    \E t \in TableNames : \E f \in FieldNames(t) : \E other \in InOperands :
       ColumnIn(t, f, other)

SpecIn == Init /\ [][NextIn]_vars

\* --- SpecWhere: the composition of where-clauses ---
\* The most values bound by a composed where-clause.
MaxWhereValues == 4

NameIn == Column_getitem(UserName, TupleOf(<<StrV(1), StrV(2)>>)).clause

\* the clauses an expression gives as the right operand of & and |
RightOperands ==
    {Column_lt(UserId, IntV(2)).clause, NameIn,
     WhereStatement_and(Column_eq(UserId, IntV(1)).clause, Column_ne(UserName, StrV(1)).clause),
     WhereStatement_or(Column_ne(UserName, StrV(2)).clause, Column_eq(UserId, IntV(2)).clause)}

NextWhere ==
    \/ \E v \in {IntV(1), StrV(2)} : ColumnCompare("user", "id", "eq", v)
    \/ ColumnCompare("user", "name", "ne", StrV(1))
    \/ ColumnIn("user", "name", TupleOf(<<StrV(1), StrV(2)>>))
    \/ \E other \in RightOperands \cup {wclause} : And(other, MaxWhereValues)
    \/ \E other \in RightOperands \cup {wclause} : Or(other, MaxWhereValues)

SpecWhere == Init /\ [][NextWhere]_vars

\* --- SpecConvert: _convert_values on every list of values ---
\* The most values in a list handed to _convert_values.
MaxConvertLen == 3

ConvertInputs ==
    {NoneV, IntV(0), IntV(2), FloatV(1), StrV(1), BytesV(1), BoolV(0), BoolV(1), DateV(1)}

InitConvert ==
    /\ db = Populated
    /\ objs = Instances
    /\ wclause = NoClause
    /\ stmt = NoStmt
    /\ pushed = {}
    /\ \E values \in SeqsUpTo(ConvertInputs, MaxConvertLen) :
          last = Last("input", values, "none", NoStmt, <<>>, <<>>, <<>>, NoResult, 0)

NextConvert ==
    \/ Convert
    \/ ConvertAgain

SpecConvert == InitConvert /\ [][NextConvert]_vars

\* --- SpecSelect: selects of column expressions, with aggregate functions ---
\* The most column expressions handed to engine.query.
MaxSelect == 2
\* The most group_by and order_by calls chained on the select.
MaxSelectClauses == 2

SelectColumns ==
    {UserId, UserName, CommentId, Column_max(UserId), Column_min(UserId),
     Column_sum(UserId), Column_count(UserId), Column_avg(UserId)}

ChainColumns == {UserName, Column_count(UserId)}

NextSelect ==
    \/ \E cs \in SeqsUpTo(SelectColumns, MaxSelect) : NewQuery(OfColumns(cs))
    \/ \E c \in ChainColumns : GroupBy(<<c>>, MaxSelectClauses)
    \/ \E c \in ChainColumns : OrderBy(<<c>>, TRUE, MaxSelectClauses)
    \/ All
    \/ First

SpecSelect == Init /\ [][NextSelect]_vars

\* --- SpecDelete: a delete whose where-clause was composed beforehand ---
\* The most values bound by the where-clause of the delete.
MaxDeleteValues == 2
\* The most clause-adding calls chained on the delete.
MaxDeleteClauses == 2

\* the clauses an expression gives as the right operand of & and |
DeleteOperands == {Column_eq(UserName, StrV(2)).clause, Column_gt(UserId, IntV(1)).clause}

NextDelete ==
    \/ \E f \in {"id", "name"} : \E op \in {"eq", "lt"} : \E v \in {IntV(1), IntV(2), StrV(1)} :
          wclause = NoClause /\ ColumnCompare("user", f, op, v)
    \/ \E other \in DeleteOperands : stmt.kind = "None" /\ And(other, MaxDeleteValues)
    \/ \E other \in DeleteOperands : stmt.kind = "None" /\ Or(other, MaxDeleteValues)
    \/ NewDelete("user")
    \/ WhereClause(MaxDeleteClauses)
    \/ \E cs \in {<<>>, <<UserId>>, <<UserName, UserId>>} : Returning(cs, MaxDeleteClauses)
    \/ All
    \/ First

SpecDelete == Init /\ [][NextDelete]_vars

\* --- SpecUpdate: updates of Comment.user_id by arithmetic ---
\* The most set-assignments handed to engine.update.
MaxSets == 2
\* The most clause-adding calls chained on the update.
MaxUpdateClauses == 2

\* Comment.c.user_id <op> v for the four operators
SetChoices ==
    {Column_add(CommentUserId, IntV(1)).set, Column_sub(CommentUserId, IntV(1)).set,
     Column_mul(CommentUserId, IntV(2)).set, Column_truediv(CommentUserId, IntV(2)).set}

NextUpdate ==
    \/ \E f \in {"id", "user_id"} : \E op \in {"eq", "ge"} : \E v \in {IntV(1), IntV(2)} :
          wclause = NoClause /\ ColumnCompare("comment", f, op, v)
    \/ \E sets \in SeqsUpTo(SetChoices, MaxSets) \ {<<>>} : NewUpdate(sets)
    \/ WhereClause(MaxUpdateClauses)
    \/ \E cs \in {<<>>, <<CommentUserId>>} : Returning(cs, MaxUpdateClauses)
    \/ All
    \/ First

SpecUpdate == Init /\ [][NextUpdate]_vars

\* --- SpecReuse: a where-clause the caller keeps using after where() ---
\* The most values bound by the where-clause the caller holds.
MaxReuseValues == 3
\* The most clause-adding calls chained on the statement.
MaxReuseClauses == 2

NextReuse ==
    \/ \E v \in {IntV(1), StrV(1)} : wclause = NoClause /\ ColumnCompare("user", "id", "eq", v)
    \/ \E other \in DeleteOperands \cup {wclause} : And(other, MaxReuseValues)
    \/ \E other \in DeleteOperands \cup {wclause} : Or(other, MaxReuseValues)
    \/ NewQuery(OfTable("user"))
    \/ NewUpdate(<<Column_add(CommentUserId, IntV(1)).set>>)
    \/ NewDelete("user")
    \/ WhereClause(MaxReuseClauses)
    \/ Limit(IntV(1), MaxReuseClauses)
    \/ All
    \/ First

SpecReuse == Init /\ [][NextReuse]_vars

\* --- SpecAggregate: what can be done with a column after an aggregate call ---
NextAggregate ==
    \/ \E t \in TableNames : \E f \in FieldNames(t) : \E func \in AggFuncs :
          ColumnAggregate(t, f, func)
    \/ \E func \in AggFuncs : AggregateAgain(func)
    \/ \E op \in CompareOps : \E v \in {IntV(1), StrV(1)} : AggregatedCompare(op, v)
    \/ \E other \in {ScalarOf(IntV(1)), ListOf(<<IntV(1), IntV(2)>>), TupleOf(<<StrV(1)>>)} :
          AggregatedIn(other)
    \/ \E op \in {"add", "truediv"} : \E v \in {IntV(1), StrV(1)} : AggregatedArithmetic(op, v)

SpecAggregate == Init /\ [][NextAggregate]_vars

(***************************************************************************)
(* Properties                                                              *)
(***************************************************************************)
Terminals == {"all", "first"}

\* the terminal call got as far as a rendered statement
Rendered == last.op \in Terminals /\ last.statement # <<>>

SlotsBefore == Range(last.before.statements)

HasSlot(S, n) == \E x \in S : x.ctype.name = n

\* --- C1 ---
C1_Kinds == <<"SELECT", "FROM", "WHERE", "GROUP_BY", "ORDER_BY", "LIMIT", "OFFSET">>

\* the fragment a set of slots gives for a kind: that of the slot of the kind,
\* and LIMIT ? for an OFFSET without a LIMIT
C1_Fragment(S, n) ==
    IF HasSlot(S, n) THEN (CHOOSE x \in S : x.ctype.name = n).clause
    ELSE IF n = "LIMIT" /\ HasSlot(S, "OFFSET") THEN <<"LIMIT", "?">>
    ELSE <<>>

C1_Expected(S) == Flatten([k \in 1..Len(C1_Kinds) |-> C1_Fragment(S, C1_Kinds[k])])

\* C1: the SQL a select statement renders is determined by the set of its
\* clause slots alone: the fragments in the order SELECT, FROM, WHERE, GROUP BY,
\* ORDER BY, LIMIT, OFFSET, whatever order the calls were chained in.
C1_ClauseOrderIndependence ==
    (Rendered /\ last.before.kind = "Query")
        => last.statement = C1_Expected(SlotsBefore)

\* all five kinds chained in an order that is not the rendering order
C1_Witness ==
    /\ last.op = "all" /\ last.err = "none" /\ last.before.kind = "Query"
    /\ Len(last.before.statements) = 7
    /\ \A n \in Range(C1_Kinds) : HasSlot(SlotsBefore, n)
    /\ last.before.statements[3].ctype.name = "OFFSET"
    /\ last.before.statements[7].ctype.name = "WHERE"

\* --- C2 ---
\* two slots of the statement are of the same clause kind
C2_Twice(self) ==
    \E i, j \in 1..Len(self.statements) :
       i < j /\ self.statements[i].ctype = self.statements[j].ctype

C2_ClauseWords == {"WHERE", "GROUP", "ORDER", "LIMIT", "OFFSET", "RETURNING"}

\* C2: a terminal call on a statement on which a clause-adding method was
\* called twice fails with the duplicate-clause error and sends nothing to the
\* connection; no rendered statement has two fragments of one clause kind.
C2_DuplicateClauseRejected ==
    (last.op \in Terminals) =>
        /\ C2_Twice(last.before) => (last.err = "DuplicateClause" /\ last.executed = <<>>)
        /\ \A w \in C2_ClauseWords : CountOf(last.statement, w) <= 1

\* .limit(x).limit(y) with x # y, then all()
C2_Witness ==
    /\ last.op = "all" /\ last.err = "DuplicateClause"
    /\ \E i, j \in 1..Len(last.before.statements) :
          /\ i < j
          /\ last.before.statements[i].ctype.name = "LIMIT"
          /\ last.before.statements[j].ctype.name = "LIMIT"
          /\ last.before.statements[i].value # last.before.statements[j].value

\* --- C3 ---
C3_SlotValue(S, n) == (CHOOSE x \in S : x.ctype.name = n).value

\* C3: a rendered select with an OFFSET slot and no LIMIT slot has LIMIT ? bound
\* to -1 right before OFFSET ? bound to the offset; with both slots the LIMIT is
\* bound to the value of the LIMIT slot and there is one LIMIT only.
C3_OffsetWithoutLimit ==
    (Rendered /\ last.before.kind = "Query" /\ HasSlot(SlotsBefore, "OFFSET")) =>
        LET segs == Segments(last.statement)
            n == Len(segs)
        IN /\ n >= 2
           /\ segs[n - 1] = [kw |-> "LIMIT", body |-> <<"?">>]
           /\ segs[n] = [kw |-> "OFFSET", body |-> <<"?">>]
           /\ CountOf(last.statement, "LIMIT") = 1
           /\ BindsOf(segs, "OFFSET", last.values) = C3_SlotValue(SlotsBefore, "OFFSET")
           /\ BindsOf(segs, "LIMIT", last.values) =
                 IF HasSlot(SlotsBefore, "LIMIT") THEN C3_SlotValue(SlotsBefore, "LIMIT")
                 ELSE <<IntV(-1)>>

\* .offset(n) alone, then all()
C3_Witness ==
    /\ last.op = "all" /\ last.err = "none" /\ last.before.kind = "Query"
    /\ HasSlot(SlotsBefore, "OFFSET") /\ ~HasSlot(SlotsBefore, "LIMIT")
    /\ Len(last.result.rows) = 1

\* --- C4 ---
\* C4: after push(schema) a table of the schema's name exists, whatever other
\* tables there were: every schema pushed has its table.
C4_PushCreatesMissingTable ==
    (last.op = "push" /\ last.err = "none") => pushed \subseteq db.catalog

\* --- C5 ---
C5_Creates(executed) == \E k \in 1..Len(executed) : executed[k].sql[1] = "CREATE"

\* C5: a second push of a schema sends no CREATE TABLE and leaves the rows of
\* every table as they were.
C5_IdempotentPush ==
    [][(last'.op = "push" /\ last'.args[2])
          => (~C5_Creates(last'.executed) /\ db'.rows = db.rows /\ db'.catalog = db.catalog)]_vars

\* a second push of a schema whose table holds rows
C5_Witness ==
    /\ last.op = "push" /\ last.args[2] /\ last.err = "none"
    /\ last.args[1] \in db.catalog /\ db.rows[last.args[1]] # <<>>

\* --- C6 ---
\* the batch names distinct instances with no primary key yet, of pushed tables
C6_FreshBatch ==
    /\ last.op = "insert"
    /\ \A k \in 1..Len(last.args) :
          /\ Instances[last.args[k]].table \in db.catalog
          /\ ~Truthy(Instances[last.args[k]].fields[1])
          /\ \A j \in 1..Len(last.args) : j # k => last.args[j] # last.args[k]

\* C6: insert returns the instances it was given, in batch order, each with the
\* generated primary key and holding the stored row.
C6_InsertReturnsSameInstances ==
    C6_FreshBatch =>
        /\ last.err = "none"
        /\ last.result.rows = last.args
        /\ \A k \in 1..Len(last.args) :
              /\ Truthy(objs[last.args[k]].fields[1])
              /\ objs[last.args[k]].fields \in Range(db.rows[objs[last.args[k]].table])

\* --- C7 ---
\* query(Schema).where(pk == r.pk).all() for the instance r
C7_RoundTrip(r) ==
    LET pk == GenericColumn_getattr(r.table, model_fields(r.table)[1].name)
        q == where(Query(OfTable(r.table)).self, Column_eq(pk, r.fields[1]).clause).self
    IN BaseStatement_all(db, q)

\* C7: after insert([r]) the query for r's primary key returns one record,
\* equal to r in every field.
C7_InsertRoundTrip ==
    (C6_FreshBatch /\ Len(last.args) = 1) =>
        /\ last.err = "none"
        /\ IsInstance(objs[last.args[1]].fields[1], "int")
        /\ \A x \in C7_RoundTrip(objs[last.args[1]]) :
              x.err = "none" /\ x.result.rows = <<objs[last.args[1]].fields>>

\* --- C8 ---
C8_Symbol(op) ==
    CASE op = "eq" -> "=" [] op = "ne" -> "!=" [] op = "lt" -> "<" [] op = "le" -> "<="
      [] op = "gt" -> ">" [] op = "ge" -> ">="

\* the operand is of the declared type (a bool is an int)
C8_TypeMatches(v, ann) == v.ty = ann \/ (v.ty = "bool" /\ ann = "int")

\* C8: a comparison fails when the operand is not of the column's declared
\* type, and otherwise gives the where-clause <field> <op> ? bound to the operand.
C8_TypeCheckedComparison ==
    (last.op = "compare") =>
        LET field == last.args[2]
            other == last.args[4]
        IN IF C8_TypeMatches(other, FieldOf(last.args[1], field).ann)
           THEN /\ last.err = "none"
                /\ wclause.statement = <<field, C8_Symbol(last.args[3]), "?">>
                /\ wclause.values = <<other>>
           ELSE last.err = "TypeMismatch"

\* a text operand on an integer column
C8_Witness ==
    /\ last.op = "compare" /\ last.err = "TypeMismatch"
    /\ last.args[1] = "user" /\ last.args[2] = "id" /\ last.args[4] = StrV(1)

\* --- C9 ---
\* C9: a terminal call on an update statement with a LIMIT or OFFSET slot and
\* no RETURNING slot fails and sends nothing to the connection.
C9_UpdateLimitNeedsReturning ==
    (last.op \in Terminals /\ last.before.kind = "Update"
       /\ (HasSlot(SlotsBefore, "LIMIT") \/ HasSlot(SlotsBefore, "OFFSET"))
       /\ ~HasSlot(SlotsBefore, "RETURNING"))
        => (last.err # "none" /\ last.executed = <<>>)

\* --- C10 ---
C10_Rejected == {"order_by", "limit", "offset", "group_by"}

\* C10: on a delete statement order_by, limit, offset and group_by fail with
\* InvalidOperationError and leave the statement as it was.
C10_DeleteRejectsClauses ==
    (last.op \in C10_Rejected /\ last.before.kind = "Delete")
        => (last.err = "InvalidOperationError" /\ stmt = last.before)

\* limit() on a delete statement that already has a WHERE slot
C10_Witness ==
    /\ last.op = "limit" /\ last.before.kind = "Delete"
    /\ HasSlot(Range(stmt.statements), "WHERE")

\* the fragments of the slots of S, in the order of kinds
FragmentsInOrder(S, kinds) ==
    Flatten([k \in 1..Len(kinds) |->
               IF HasSlot(S, kinds[k]) THEN (CHOOSE x \in S : x.ctype.name = kinds[k]).clause
               ELSE <<>>])

\* --- C11 ---
C11_Kinds == <<"DELETE", "WHERE", "RETURNING">>

\* C11: a rendered delete statement has its fragments in the order DELETE,
\* WHERE, RETURNING, whichever of where() and returning() was called first.
C11_DeleteFragmentOrder ==
    (Rendered /\ last.before.kind = "Delete")
        => last.statement = FragmentsInOrder(SlotsBefore, C11_Kinds)

\* --- C12 ---
C12_Kinds == <<"UPDATE", "SET", "WHERE", "RETURNING", "ORDER_BY", "LIMIT", "OFFSET">>

\* C12: a rendered update statement has its fragments in the order UPDATE, SET,
\* WHERE, RETURNING, ORDER BY, LIMIT, OFFSET, whatever order the calls were in.
C12_UpdateFragmentOrder ==
    (Rendered /\ last.before.kind = "Update"
       /\ \A x \in SlotsBefore : x.ctype.name \in Range(C12_Kinds))
        => last.statement = FragmentsInOrder(SlotsBefore, C12_Kinds)

\* --- C13 ---
\* built from a whole schema, with no group_by and no returning(columns...)
C13_Typed(self) ==
    /\ self.select.is_table
    /\ \A x \in Range(self.statements) :
          /\ x.ctype.name # "GROUP_BY"
          /\ x.ctype.name = "RETURNING" => x.clause = <<"RETURNING", "*">>

\* C13: a terminal call gives typed records exactly when the statement was
\* built from a whole schema and neither group_by nor returning(columns...) was
\* called on it; a statement with a GROUP BY slot is tuple-returning in every
\* state, whatever was chained after group_by.
C13_TupleReturning ==
    /\ HasSlot(Range(stmt.statements), "GROUP_BY") => ~stmt.can_return_table
    /\ (last.op \in Terminals /\ last.err = "none")
          => (last.result.kind \in {"objects", "object"} <=> C13_Typed(last.before))

\* group_by on a select of a whole schema, another call chained after it, then
\* all() gives tuples
C13_Witness ==
    /\ last.op = "all" /\ last.err = "none" /\ last.before.kind = "Query"
    /\ last.before.select.is_table
    /\ Len(last.before.statements) >= 4
    /\ last.before.statements[3].ctype.name = "GROUP_BY"
    /\ last.result.kind = "tuples" /\ last.result.rows # <<>>

\* --- C14 ---
\* C14: when all() or first() has executed its statement and returned, the
\* connection has committed: the committed contents are the current contents.
C14_TerminalCommits ==
    (last.op \in Terminals /\ last.executed # <<>> /\ last.err = "none")
        => db.committed = db.rows

\* --- C15 ---
\* the k-th statement sent is the INSERT for the k-th instance of the batch
C15_InsertFor(k) ==
    /\ SubSeq(last.executed[k].sql, 1, 3) = <<"INSERT", "INTO", Instances[last.args[k]].table>>
    /\ last.executed[k].values = Engine_insert_values(Instances[last.args[k]])

\* C15: insert sends one INSERT per instance, in batch order, and commits once
\* after the last; when a statement fails the later instances get none and
\* nothing is committed.
C15_InsertBatchCommitsOnce ==
    (last.op = "insert") =>
        /\ Len(last.executed) <= Len(last.args)
        /\ \A k \in 1..Len(last.executed) : C15_InsertFor(k)
        /\ C6_FreshBatch => (Len(last.executed) = Len(last.args) /\ last.commits = 1)
        /\ last.err # "none" => last.commits = 0

\* --- C16 ---
\* C16: column[other] fails when other is no list or tuple, when it is empty,
\* or when an element is not of the column's declared type; otherwise it gives
\* the where-clause <field> IN (?, ..., ?) with one placeholder per element,
\* bound to the elements in their order.
C16_InOperator ==
    (last.op = "in") =>
        LET field == last.args[2]
            other == last.args[3]
            n == Len(other.items)
        IN IF /\ other.coll \in {"list", "tuple"}
              /\ n > 0
              /\ \A k \in 1..n :
                    C8_TypeMatches(other.items[k], FieldOf(last.args[1], field).ann)
           THEN /\ last.err = "none"
                /\ Len(wclause.statement) = 2 * n + 3
                /\ SubSeq(wclause.statement, 1, 3) = <<field, "IN", "(">>
                /\ wclause.statement[2 * n + 3] = ")"
                /\ \A k \in 1..(2 * n - 1) :
                      wclause.statement[3 + k] = IF k % 2 = 1 THEN "?" ELSE ","
                /\ wclause.values = other.items
           ELSE last.err # "none"

\* a list with an element of another type than the column's
C16_Witness ==
    /\ last.op = "in" /\ last.err # "none"
    /\ last.args[2] = "id"
    /\ last.args[3] = ListOf(<<IntV(1), StrV(1)>>)

\* --- C17 ---
C17_Word == IF last.op = "and" THEN "AND" ELSE "OR"

\* the positions of the placeholders of a fragment, left to right
C17_Marks(toks) == SelectSeq([k \in 1..Len(toks) |-> k], LAMBDA k : toks[k] = "?")

\* the field a placeholder at position p belongs to: the last field name before it
C17_FieldAt(toks, p) ==
    toks[Max({k \in 1..p : toks[k] \in FieldNames("user")})]

\* C17: a & b (a | b) is the clause ( <a> AND <b> ) (( <a> OR <b> )) with the
\* values of a followed by those of b, so the placeholders of the fragment,
\* left to right, are bound to the values in list order, at any depth.
C17_Composition ==
    (last.op \in {"and", "or"}) =>
        LET a == last.args[1]
            b == last.args[2]
            marks == C17_Marks(wclause.statement)
        IN /\ wclause.statement = <<"(">> \o a.statement \o <<C17_Word>> \o b.statement \o <<")">>
           /\ wclause.values = a.values \o b.values
           /\ Len(marks) = Len(wclause.values)
           /\ \A k \in 1..Len(marks) :
                 C8_TypeMatches(wclause.values[k],
                    FieldOf("user", C17_FieldAt(wclause.statement, marks[k])).ann)

\* a composed clause combined with a composed clause
C17_Witness ==
    /\ last.op = "or"
    /\ CountOf(last.args[1].statement, "AND") >= 1
    /\ CountOf(last.args[2].statement, "OR") >= 1
    /\ Len(wclause.values) >= 4
    /\ \E k \in 1..(Len(wclause.values) - 1) : wclause.values[k].ty # wclause.values[k + 1].ty

\* --- C18 ---
\* what the coercion is to give for one value
C18_Coerced(v, w) ==
    IF v.ty \in {"none", "int", "float", "str", "bytes"} THEN w = v
    ELSE IF v.ty = "bool" THEN w = IntV(v.i)
    ELSE w.ty = "str"

\* C18: coercion never fails, passes None, int, float, str and bytes values
\* through, turns a bool into the integer 0 or 1 and any other value into
\* text; coercing a coerced list changes nothing.
C18_Coercion ==
    (last.op \in {"convert", "convert_again"}) =>
        /\ last.err = "none"
        /\ Len(last.values) = Len(last.args)
        /\ \A k \in 1..Len(last.args) : C18_Coerced(last.args[k], last.values[k])
        /\ last.op = "convert_again" => last.values = last.args

\* FUNC ( field ) for a column with an aggregate function, else the field
RenderedColumn(c) ==
    IF c.function_applied # "None" THEN <<c.function_applied, "(", c.column_name, ")">>
    ELSE <<c.column_name>>

RenderedColumns(cs) == Join([k \in 1..Len(cs) |-> RenderedColumn(cs[k])], ",")

\* --- C19 ---
\* C19: engine.query(columns...) fails when the list is empty or the columns
\* are not all of one table; otherwise the statement starts with one SELECT
\* slot listing the rendered columns in argument order and one FROM slot
\* naming the table, and is tuple-returning.
C19_ColumnSelect ==
    (last.op = "query" /\ ~last.args[1].is_table) =>
        LET cs == last.args[1].columns
            S == Range(stmt.statements)
        IN IF cs = <<>> \/ \E j, k \in 1..Len(cs) : cs[j].table_name # cs[k].table_name
           THEN last.err # "none" /\ stmt = NoStmt
           ELSE /\ last.err = "none"
                /\ Len(stmt.statements) = 2
                /\ \E x \in S : /\ x.ctype = QueryClause("SELECT")
                                /\ x.clause = <<"SELECT">> \o RenderedColumns(cs)
                /\ \E x \in S : /\ x.ctype = QueryClause("FROM")
                                /\ x.clause = <<"FROM", cs[1].table_name>>
                /\ ~stmt.can_return_table

\* columns of two tables
C19_Witness ==
    /\ last.op = "query" /\ last.err # "none"
    /\ last.args[1].columns = <<UserName, CommentId>>

\* --- C20 ---
C20_LastSlot == stmt.statements[Len(stmt.statements)]

\* C20: a column with an aggregate function is rendered as FUNC(field) in the
\* SELECT list, in ORDER BY and in GROUP BY.
C20_AggregateRendering ==
    /\ (last.op = "query" /\ last.err = "none" /\ ~last.args[1].is_table)
          => \E x \in Range(stmt.statements) :
                x.clause = <<"SELECT">> \o RenderedColumns(last.args[1].columns)
    /\ (last.op = "order_by" /\ last.err = "none")
          => C20_LastSlot.clause =
                <<"ORDER", "BY">> \o RenderedColumns(last.args[1])
                   \o <<IF last.args[2] THEN "ASC" ELSE "DESC">>
    /\ (last.op = "group_by" /\ last.err = "none")
          => C20_LastSlot.clause = <<"GROUP", "BY">> \o RenderedColumns(last.args)

\* --- C21 ---
\* the value record r holds in its field of name f
C21_FieldValue(r, f) ==
    LET fs == model_fields(r.table)
    IN r.fields[CHOOSE k \in 1..Len(fs) : fs[k].name = f]

\* the instance refers to no row of the table its foreign key references
C21_Dangling(r, fk) ==
    /\ r.table = fk.table
    /\ ~\E k \in 1..Len(db.rows[fk.ref_table]) :
          SqlEq(db.rows[fk.ref_table][k][1], C21_FieldValue(r, fk.field))

\* C21: the CREATE TABLE push sends for a schema with a foreign-key field
\* declares the reference, and inserting a record whose foreign key matches no
\* row of the referenced table fails with the storage engine's integrity
\* error and stores nothing.
C21_ForeignKeyEnforced ==
    /\ (last.op = "push" /\ last.err = "none" /\ C5_Creates(last.executed))
          => \A fk \in ForeignKeys :
                fk.table = last.args[1]
                   => \E k \in 1..Len(last.executed) :
                         /\ last.executed[k].sql[1] = "CREATE"
                         /\ "REFERENCES" \in Range(last.executed[k].sql)
    /\ (last.op = "insert" /\ Len(last.args) = 1 /\ TableNames \subseteq db.catalog)
          => \A fk \in ForeignKeys :
                C21_Dangling(Instances[last.args[1]], fk)
                   => /\ last.err = "IntegrityError"
                      /\ db.rows = db.committed

\* --- C22 ---
\* the kinds of the slots of a statement, in the order it holds them
C22_SlotKinds(self) == [k \in 1..Len(self.statements) |-> self.statements[k].ctype.name]

C22_Slot(self, n) ==
    self.statements[CHOOSE k \in 1..Len(self.statements) : self.statements[k].ctype.name = n]

\* value a <sym> value b, for two values of one type
C22_Compare(sym, a, b) ==
    CASE sym = "=" -> a.i = b.i
      [] sym = "!=" -> a.i # b.i
      [] sym = "<" -> a.i < b.i
      [] sym = "<=" -> a.i <= b.i
      [] sym = ">" -> a.i > b.i
      [] sym = ">=" -> a.i >= b.i

C22_Field(t, row, f) ==
    row[CHOOSE k \in 1..Len(model_fields(t)) : model_fields(t)[k].name = f]

RECURSIVE C22_Satisfies(_, _, _, _)
\* the row of table t satisfies the where-clause of fragment toks and values vals
C22_Satisfies(t, toks, vals, row) ==
    IF toks[1] # "("
    THEN C22_Compare(toks[2], C22_Field(t, row, toks[1]), vals[1])
    ELSE LET Open(k) == Cardinality({j \in 1..k : toks[j] = "("})
                         - Cardinality({j \in 1..k : toks[j] = ")"})
             mid == CHOOSE k \in 1..Len(toks) : toks[k] \in {"AND", "OR"} /\ Open(k) = 1
             left == SubSeq(toks, 2, mid - 1)
             right == SubSeq(toks, mid + 1, Len(toks) - 1)
             n == Cardinality({j \in 1..Len(left) : left[j] = "?"})
         IN IF toks[mid] = "AND"
            THEN C22_Satisfies(t, left, SubSeq(vals, 1, n), row)
                 /\ C22_Satisfies(t, right, SubSeq(vals, n + 1, Len(vals)), row)
            ELSE C22_Satisfies(t, left, SubSeq(vals, 1, n), row)
                 \/ C22_Satisfies(t, right, SubSeq(vals, n + 1, Len(vals)), row)

\* the row is one the delete is to remove: every row when there is no where
C22_Removed(self, row) ==
    "WHERE" \notin Range(C22_SlotKinds(self))
    \/ C22_Satisfies(self.select.table, Tail(C22_Slot(self, "WHERE").clause),
                     C22_Slot(self, "WHERE").value, row)

\* what returning(...) asks of a removed row: the row, or the columns named
C22_Returned(self, row) ==
    LET toks == Tail(C22_Slot(self, "RETURNING").clause)
        names == SelectSeq(toks, LAMBDA x : x # ",")
    IN IF toks = <<"*">> THEN row
       ELSE [k \in 1..Len(names) |-> C22_Field(self.select.table, row, names[k])]

\* C22: all() on delete(Schema)[.where(c)][.returning(...)] removes exactly the
\* rows satisfying c (every row without a where), leaves the other rows and
\* the other tables as they were, and with returning gives the removed rows.
C22_DeleteSemantics ==
    [][(/\ last'.op = "all"
        /\ stmt.kind = "Delete"
        /\ C22_SlotKinds(stmt) \in {<<"DELETE">>, <<"DELETE", "WHERE">>,
                                    <<"DELETE", "RETURNING">>,
                                    <<"DELETE", "WHERE", "RETURNING">>})
       => LET t == stmt.select.table
              Gone(row) == C22_Removed(stmt, row)
              Kept(row) == ~C22_Removed(stmt, row)
              gone == SelectSeq(db.rows[t], Gone)
          IN /\ last'.err = "none"
             /\ db'.rows[t] = SelectSeq(db.rows[t], Kept)
             /\ \A u \in TableNames \ {t} : db'.rows[u] = db.rows[u]
             /\ last'.result.rows =
                   IF "RETURNING" \in Range(C22_SlotKinds(stmt))
                   THEN [k \in 1..Len(gone) |-> C22_Returned(stmt, gone[k])]
                   ELSE <<>>]_vars

\* a delete with a composed where-clause and returning(column) removed one of
\* the two rows and returned it
C22_Witness ==
    /\ last.op = "all" /\ last.err = "none" /\ last.before.kind = "Delete"
    /\ C22_SlotKinds(last.before) = <<"DELETE", "WHERE", "RETURNING">>
    /\ "OR" \in Range(last.statement)
    /\ Len(last.result.rows) = 1
    /\ Len(db.rows["user"]) = 1

\* --- C23 ---
\* old <op> v as the storage engine computes it on integers (the quotient of
\* two integers is cut towards zero)
C23_Apply(sym, old, v) ==
    CASE sym = "+" -> old + v
      [] sym = "-" -> old - v
      [] sym = "*" -> old * v
      [] sym = "/" -> IF (old < 0) = (v < 0)
                      THEN (IF old < 0 THEN -old ELSE old) \div (IF v < 0 THEN -v ELSE v)
                      ELSE -((IF old < 0 THEN -old ELSE old) \div (IF v < 0 THEN -v ELSE v))

\* engine.update(set_1, ..., set_n) holds one SET slot: the assignments joined
\* by ", ", each "<field> = <field> <op> ?", with their values in argument order
C23_OneSetFragment ==
    (last.op = "update" /\ last.err = "none") =>
        LET sets == last.args
            slot == C22_Slot(stmt, "SET")
        IN /\ Cardinality({k \in 1..Len(stmt.statements) :
                              stmt.statements[k].ctype.name = "SET"}) = 1
           /\ slot.clause = <<"SET">> \o Join([k \in 1..Len(sets) |-> sets[k].statement], ",")
           /\ slot.value = [k \in 1..Len(sets) |-> sets[k].values[1]]
           /\ \A k \in 1..Len(sets) :
                 /\ Len(sets[k].statement) = 5 /\ Len(sets[k].values) = 1
                 /\ sets[k].statement[1] = sets[k].column.column_name
                 /\ sets[k].statement[3] = sets[k].column.column_name
                 /\ sets[k].statement[2] = "=" /\ sets[k].statement[5] = "?"

\* the row as update(col <op> v) is to leave it
C23_Updated(self, row) ==
    LET set == C22_Slot(self, "SET")
        fs == model_fields(self.table_name)
    IN [c \in 1..Len(row) |->
           IF fs[c].name = set.clause[2]
           THEN IntV(C23_Apply(set.clause[5], row[c].i, set.value[1].i))
           ELSE row[c]]

C23_Hit(self, row) ==
    "WHERE" \notin Range(C22_SlotKinds(self))
    \/ C22_Satisfies(self.table_name, Tail(C22_Slot(self, "WHERE").clause),
                     C22_Slot(self, "WHERE").value, row)

C23_Returned(self, row) ==
    LET toks == Tail(C22_Slot(self, "RETURNING").clause)
        names == SelectSeq(toks, LAMBDA x : x # ",")
    IN IF toks = <<"*">> THEN row
       ELSE [k \in 1..Len(names) |-> C22_Field(self.table_name, row, names[k])]

\* C23: all() on update(col <op> v)[.where(c)][.returning(...)] stores
\* old <op> v in col for exactly the rows satisfying c, leaves the other rows,
\* columns and tables as they were and returns the new values of the rows it
\* changed; the assignments of an update are one SET fragment joined by ", "
\* with their values in argument order.
C23_UpdateArithmetic ==
    [][/\ C23_OneSetFragment'
       /\ (/\ last'.op = "all"
           /\ stmt.kind = "Update"
           /\ Len(C22_Slot(stmt, "SET").value) = 1
           /\ C22_SlotKinds(stmt) \in {<<"UPDATE", "SET">>, <<"UPDATE", "SET", "WHERE">>,
                                       <<"UPDATE", "SET", "RETURNING">>,
                                       <<"UPDATE", "SET", "WHERE", "RETURNING">>,
                                       <<"UPDATE", "SET", "RETURNING", "WHERE">>})
          => LET t == stmt.table_name
                 Hit(row) == C23_Hit(stmt, row)
                 hit == SelectSeq(db.rows[t], Hit)
             IN /\ last'.err = "none"
                /\ db'.rows[t] = [k \in 1..Len(db.rows[t]) |->
                                    IF Hit(db.rows[t][k]) THEN C23_Updated(stmt, db.rows[t][k])
                                    ELSE db.rows[t][k]]
                /\ \A u \in TableNames \ {t} : db'.rows[u] = db.rows[u]
                /\ last'.result.rows =
                      IF "RETURNING" \in Range(C22_SlotKinds(stmt))
                      THEN [k \in 1..Len(hit) |-> C23_Returned(stmt, C23_Updated(stmt, hit[k]))]
                      ELSE <<>>]_vars

\* update(user_id / 2).where(c).returning(user_id).all() changed one of two rows
C23_Witness ==
    /\ last.op = "all" /\ last.err = "none" /\ last.before.kind = "Update"
    /\ C22_SlotKinds(last.before) = <<"UPDATE", "SET", "WHERE", "RETURNING">>
    /\ C22_Slot(last.before, "SET").clause[5] = "/"
    /\ Len(last.result.rows) = 1
    /\ last.result.rows[1] = <<IntV(1)>>

\* --- C24 ---
\* C24: a rendered statement has as many "?" as bound values, and so has the
\* fragment of every slot it was rendered from, whatever was done with the
\* where-clause after it was passed to where().
C24_PlaceholdersMatchValues ==
    Rendered =>
        /\ CountOf(last.statement, "?") = Len(last.values)
        /\ \A k \in 1..Len(stmt.statements) :
              CountOf(stmt.statements[k].clause, "?") = Len(stmt.statements[k].value)

\* --- C25 ---
\* the positions of the fields insert is to name for an instance: all of them
\* in declared order, but a primary key that is None or 0
C25_Named(obj) ==
    LET fs == model_fields(obj.table)
    IN SelectSeq([k \in 1..Len(fs) |-> k],
                 LAMBDA k : ~(fs[k].pk /\ obj.fields[k] \in {NoneV, IntV(0)}))

\* C25: the INSERT sent for a record names the record's fields in declared
\* order without an unset primary key, has one "?" per named column, ends
\* with RETURNING * and binds the coerced values of those fields in that order.
C25_InsertStatement ==
    (last.op = "insert") =>
        \A k \in 1..Len(last.executed) :
           LET obj == Instances[last.args[k]]
               fs == model_fields(obj.table)
               named == C25_Named(obj)
               n == Len(named)
               sql == last.executed[k].sql
               head == <<"INSERT", "INTO", obj.table, "(">>
                          \o Join([j \in 1..n |-> <<fs[named[j]].name>>], ",")
                          \o <<")", "VALUES", "(">>
                          \o Join([j \in 1..n |-> <<"?">>], ",") \o <<")", "RETURNING", "*">>
           IN /\ sql \in {head, head \o <<";">>}
              /\ Len(last.executed[k].values) = n
              /\ \A j \in 1..n :
                    C18_Coerced(obj.fields[named[j]], last.executed[k].values[j])

\* --- C26 ---
\* how often the statement holds the slot x
C26_Count(self, x) == Cardinality({k \in 1..Len(self.statements) : self.statements[k] = x})

\* C26: after all() or first() returns, the statement holds the slots it held
\* before the call, each as often as before: none added, none changed.
C26_TerminalKeepsSlots ==
    (last.op \in Terminals /\ last.err = "none") =>
        \A x \in Range(stmt.statements) \cup Range(last.before.statements) :
           C26_Count(stmt, x) = C26_Count(last.before, x)

\* --- C27 ---
\* C27: a terminal call that follows a rendered terminal call with no builder
\* call in between renders the same SQL text and the same values.
C27_RepeatableRender ==
    [][(Rendered /\ last'.op \in Terminals)
          => (last'.statement = last.statement /\ last'.values = last.values)]_vars

\* a second terminal call on a select whose first one added the LIMIT of the
\* OFFSET repair
C27_Witness ==
    /\ Rendered /\ last.err = "none" /\ last.before.kind = "Query"
    /\ \E x \in SlotsBefore : x.ctype.name = "LIMIT" /\ x.value = <<IntV(-1)>>
    /\ HasSlot(SlotsBefore, "OFFSET")

\* --- C28 ---
\* C28: after a & b or a | b the left operand a, the clause the caller holds,
\* has the fragment and the values it had before the call.
C28_OperandsUnchanged ==
    (last.op \in {"and", "or"}) =>
        /\ wclause.statement = last.args[1].statement
        /\ wclause.values = last.args[1].values

\* --- C29 ---
\* the instance has no primary key yet and its table exists: its INSERT is
\* one the storage engine accepts
C29_Fresh(r) == r.table \in db.catalog /\ ~Truthy(r.fields[1])

\* the instance carries the primary key of a row its table already holds: its
\* INSERT is one the storage engine refuses
C29_Duplicate(r) ==
    /\ r.table \in db.catalog
    /\ \E k \in 1..Len(db.rows[r.table]) : SqlEq(db.rows[r.table][k][1], r.fields[1])

C30_AggregateIsTerminal ==
    /\ (last.op \in {"aggregated_compare", "aggregated_in", "aggregated_arithmetic"})
          => last.err # "none"
    /\ (last.op = "aggregate_again")
          => (last.err # "none"
              \/ last.result.rows[1].function_applied = last.args[1].function_applied)

====
